---- MODULE Spec2Model ----
(***************************************************************************)
(* A model of EguiPainter (crates/egui_render_wgpu/src/lib.rs): the        *)
(* texture cache with its one-frame deferred deletion, the growable        *)
(* vertex/index buffers, the draw-call compiler of upload_egui_data and    *)
(* the executor draw_egui_with_renderpass.                                 *)
(*                                                                         *)
(* A frame is one call of upload_egui_data followed by one call of         *)
(* draw_egui_with_renderpass, as WgpuBackend::render issues them.  A Rust  *)
(* panic (expect, todo!) ends the run: pc = "panicked", with the state as  *)
(* the panic left it.                                                      *)
(*                                                                         *)
(* Vertices, indices and pixels are modelled by their counts and by tags:  *)
(* the painter copies them and never looks inside.                         *)
(***************************************************************************)
EXTENDS Integers, Sequences, FiniteSets, TLC

VARIABLES
    pc,                   \* "ready" | "uploaded" | "drawn" | "panicked"
    panic,                \* the panic message, "" while none
    vb_len,               \* EguiPainter.vb_len: vertex capacity, in vertices
    ib_len,               \* EguiPainter.ib_len: index capacity, in indices
    managed_textures,     \* EguiPainter.managed_textures: key -> EguiTexture
    user_textures,        \* EguiPainter.user_textures: key -> EguiTexture
    next_user_texture_id, \* EguiPainter.next_user_texture_id
    delete_textures,      \* EguiPainter.delete_textures: Vec<TextureId>
    draw_calls,           \* EguiPainter.draw_calls: Vec<EguiDrawCalls>
    events,               \* device/queue calls of the last upload_egui_data
    removed,              \* keys the last upload_egui_data took out of the cache
    rpass,                \* commands recorded by the last draw
    frame,                \* the EguiGfxData and screen size of the last upload
    max_vb_req,           \* largest vertex requirement that reached the growth step
    max_ib_req,           \* largest index requirement that reached the growth step
    ref_cache,            \* reference cache of the explicit pending_free design
    pending_free,         \* reference pending_free queue
    registered,           \* the TextureId the last register call returned
    backend,              \* the WgpuBackend fields
    window,               \* the window backend: [exists, size, supported_formats]
    backend_calls,        \* device/surface calls of the last WgpuBackend call
    shared,               \* the mutex of offscreen_render_target and the threads at it
    custom_data,          \* EguiPainter::custom_data, the entries of the IdTypeMap
    glfw                  \* GlfwBackend: the resize flag, the event channel, the loop's position

vars == <<pc, panic, vb_len, ib_len, managed_textures, user_textures,
          next_user_texture_id, delete_textures, draw_calls, events, removed,
          rpass, frame, max_vb_req, max_ib_req, ref_cache, pending_free,
          registered, backend, window,
          backend_calls, shared, custom_data, glfw>>

(***************************************************************************)
(* Bounds of the model.                                                    *)
(***************************************************************************)
MaxDeltaEntries == 2
MaxPrims == 2
MaxClipPrims == 1
MaxImageDeltas == 1
MaxUserTextures == 2
MaxUserPrims == 2
MaxEncoders == 2
MaxPendingEvents == 2

(***************************************************************************)
(* Program constants.                                                      *)
(***************************************************************************)
VertexSize == 20
IndexSize == 4
I32Max == 2147483647

(***************************************************************************)
(* Helpers.                                                                *)
(***************************************************************************)
Min(a, b) == IF a < b THEN a ELSE b
Max(a, b) == IF a < b THEN b ELSE a
Range(s) == {s[i] : i \in 1..Len(s)}
SeqsUpTo(S, n) == UNION {[1..k -> S] : k \in 0..n}
Without(f, k) == [x \in (DOMAIN f) \ {k} |-> f[x]]
With_or_keep(f, k, v) == [x \in (DOMAIN f) \cup {k} |-> IF x \in DOMAIN f THEN f[x] ELSE v]
With(f, k, v) == [x \in (DOMAIN f) \cup {k} |-> IF x = k THEN v ELSE f[x]]
EmptyMap == [x \in {} |-> 0]

(***************************************************************************)
(* egui::TextureId and epaint::ImageDelta.                                 *)
(***************************************************************************)
ManagedId(k) == [kind |-> "Managed", key |-> k]
UserId(k) == [kind |-> "User", key |-> k]
\* ImageDelta.pos: None is <<>>, Some([x, y]) is <<x, y>>
NonePos == <<>>
IsFull(delta) == delta.pos = NonePos

(***************************************************************************)
(* The painter as a record, threaded through the operators the way         *)
(* &mut self is threaded through the methods.                              *)
(***************************************************************************)
Self ==
    [panic |-> panic, vb_len |-> vb_len, ib_len |-> ib_len,
     managed_textures |-> managed_textures, user_textures |-> user_textures,
     next_user_texture_id |-> next_user_texture_id,
     delete_textures |-> delete_textures, draw_calls |-> draw_calls,
     events |-> events, removed |-> removed,
     max_vb_req |-> max_vb_req, max_ib_req |-> max_ib_req,
     custom_data |-> custom_data]

Panicked(self) == self.panic # ""

\* Texture-cache calls are logged by kind, one entry per run of equal calls.
LogPhase(ev, kind) ==
    IF ev # <<>> /\ ev[Len(ev)] = [op |-> kind] THEN ev ELSE Append(ev, [op |-> kind])

(***************************************************************************)
(* EguiPainter::set_textures.                                              *)
(***************************************************************************)
\* the sampler bound at binding 0 of a new texture's bind-group
sampler_by_filter(tex_id, delta) ==
    IF delta.magnification = "Nearest" THEN "nearest" ELSE "linear"
sampler_for(tex_id, delta) ==
    IF tex_id = 0 THEN "nearest"
    ELSE IF delta.magnification = "Nearest" THEN "nearest" ELSE "linear"

\* one iteration of the loop over textures_delta_set
set_texture(self, tex_id, delta) ==
    IF tex_id.kind = "Managed"
    THEN IF ~IsFull(delta)
         THEN self
         ELSE IF delta.image.width = 0
         THEN [self EXCEPT !.panic = "texture bytes per row is zero"]
         ELSE IF delta.image.height = 0
         THEN [self EXCEPT !.panic = "texture rows count is zero"]
         ELSE [self EXCEPT
                 !.managed_textures =
                     With(@, tex_id.key,
                          [texture |-> delta.image,
                           bindgroup |-> [sampler |-> sampler_for(tex_id.key, delta),
                                          view |-> delta.image]]),
                 !.events = LogPhase(@, "create_texture")]
    ELSE [self EXCEPT !.panic = "not yet implemented"]

RECURSIVE set_textures(_, _)
set_textures(self, textures_delta_set) ==
    IF textures_delta_set = <<>> \/ Panicked(self) THEN self
    ELSE set_textures(set_texture(self, Head(textures_delta_set)[1],
                                  Head(textures_delta_set)[2]),
                      Tail(textures_delta_set))

(***************************************************************************)
(* The texture block of EguiPainter::upload_egui_data.                     *)
(***************************************************************************)
\* std::mem::replace(&mut self.delete_textures, textures_delta.free)
replace_delete_textures_now(self, free) ==
    [old |-> free, self |-> [self EXCEPT !.delete_textures = <<>>]]
replace_delete_textures(self, free) ==
    [old |-> self.delete_textures, self |-> [self EXCEPT !.delete_textures = free]]

\* for tid in delete_textures { ... }
remove_textures_none(self, list) == self
RECURSIVE remove_textures_of_any_kind(_, _)
remove_textures_of_any_kind(self, list) ==
    IF list = <<>> \/ Panicked(self) THEN self
    ELSE LET tid == Head(list) IN
         IF tid.kind = "Managed"
         THEN remove_textures_of_any_kind(
                  [self EXCEPT
                     !.managed_textures = Without(@, tid.key),
                     !.removed = @ \cup ({tid.key} \cap DOMAIN self.managed_textures),
                     !.events = LogPhase(@, "remove_texture")],
                  Tail(list))
         ELSE remove_textures_of_any_kind(
                  [self EXCEPT !.user_textures = Without(@, tid.key)], Tail(list))
RECURSIVE remove_textures(_, _)
remove_textures(self, list) ==
    IF list = <<>> \/ Panicked(self) THEN self
    ELSE LET tid == Head(list) IN
         IF tid.kind = "Managed"
         THEN remove_textures(
                  [self EXCEPT
                     !.managed_textures = Without(@, tid.key),
                     !.removed = @ \cup ({tid.key} \cap DOMAIN self.managed_textures),
                     !.events = LogPhase(@, "remove_texture")],
                  Tail(list))
         ELSE [self EXCEPT !.panic = "not yet implemented"]

texture_step_eager(self, textures_delta) ==
    LET r == replace_delete_textures(self, textures_delta.free)
    IN  set_textures(remove_textures(remove_textures(r.self, r.old), textures_delta.free),
                     textures_delta.set)
texture_step_set_first(self, textures_delta) ==
    LET s == set_textures(self, textures_delta.set)
        r == replace_delete_textures(s, textures_delta.free)
    IN  remove_textures(r.self, r.old)
texture_step(self, textures_delta) ==
    LET r == replace_delete_textures(self, textures_delta.free)
    IN  set_textures(remove_textures(r.self, r.old), textures_delta.set)

(***************************************************************************)
(* The geometry block of EguiPainter::upload_egui_data.                    *)
(*                                                                         *)
(* A ClippedPrimitive is [clip_rect |-> [min |-> <<x, y>>, max |-> <<x, y>>*)
(* ], primitive |-> p], p a mesh [kind |-> "Mesh", vertices |-> n, indices *)
(* |-> m, texture_id |-> t] (n vertices, m indices) or a callback          *)
(* [kind |-> "Callback", callback |-> c].                                  *)
(*                                                                         *)
(* Coordinates: the logical clip corners and the logical screen size are   *)
(* integers, and scale = physical width / logical width is kept exact: a   *)
(* scaled coordinate scale * c is the fraction (c * physical width) /      *)
(* (logical width), held as its numerator.  With the screens of the model  *)
(* (scale 1, 2 and 1/2) f32 computes these values exactly.                 *)
(***************************************************************************)
MeshPrimitive(n, m, t) == [kind |-> "Mesh", vertices |-> n, indices |-> m, texture_id |-> t]
CallbackPrimitive(c) == [kind |-> "Callback", callback |-> c]
Rect(x0, y0, x1, y1) == [min |-> <<x0, y0>>, max |-> <<x1, y1>>]

\* meshes.iter().fold((0, 0), ...): <<total vertices, total indices>>
RECURSIVE total_lengths(_)
total_lengths(meshes) ==
    IF meshes = <<>> THEN <<0, 0>>
    ELSE LET p == Head(meshes).primitive
             rest == total_lengths(Tail(meshes))
         IN  IF p.kind = "Mesh"
             THEN <<p.vertices + rest[1], p.indices + rest[2]>>
             ELSE rest

\* if vb_len == 0 { return; }
short_circuit_never(vb_total) == FALSE
short_circuit(vb_total) == vb_total = 0

\* self.vb_len < vb_len, self.ib_len < ib_len
needs_growth_or_equal(capacity, required) == capacity <= required
needs_growth(capacity, required) == capacity < required

\* the capacity a replaced buffer gets
grown_capacity_doubled(required) == 2 * required
grown_capacity_one(required) == 1
grown_capacity(required) == required

\* f32::clamp
clamp(x, lo, hi) == IF x < lo THEN lo ELSE IF x > hi THEN hi ELSE x
\* f32::round of num / den >= 0 (half away from zero), then `as u32`
round(num, den) == (2 * num + den) \div (2 * den)

\* width.min(screen_size_physical[0] - clip_x), height likewise
clamp_extent_unclamped(extent, screen, origin) == extent
clamp_extent(extent, screen, origin) == Min(extent, screen - origin)

\* the scissor rectangle [clip_x, clip_y, clip_width, clip_height]
scissor_rect(clip_rect, screen_size_physical, screen_size_logical) ==
    LET den == screen_size_logical[1]
        pw == screen_size_physical[1]
        ph == screen_size_physical[2]
        min_x == clamp(clip_rect.min[1] * pw, 0, pw * den)
        min_y == clamp(clip_rect.min[2] * pw, 0, ph * den)
        max_x == clamp(clip_rect.max[1] * pw, min_x, pw * den)
        max_y == clamp(clip_rect.max[2] * pw, min_y, ph * den)
        clip_min_x == round(min_x, den)
        clip_min_y == round(min_y, den)
        clip_max_x == round(max_x, den)
        clip_max_y == round(max_y, den)
        width == Max(clip_max_x - clip_min_x, 1)
        height == Max(clip_max_y - clip_min_y, 1)
        clip_x == Min(clip_min_x, pw)
        clip_y == Min(clip_min_y, ph)
    IN  <<clip_x, clip_y, clamp_extent(width, pw, clip_x), clamp_extent(height, ph, clip_y)>>

\* if clip_width == 0 || clip_height == 0 { continue; }
skipped_never(rect) == FALSE
skipped(rect) == rect[3] = 0 \/ rect[4] = 0

\* (vb_offset / 20).try_into(): the "nth" vertex a mesh starts at
base_vertex_of_bytes(vb_offset) == vb_offset
base_vertex_of(vb_offset) == vb_offset \div VertexSize

\* self.draw_calls.push(..)
push_front(calls, unit) == <<unit>> \o calls
push(calls, unit) == Append(calls, unit)

\* the prepare hook of a callback, run on &mut self.custom_data: it leaves its entry in the map
prepare_on_fresh_map(callback, map) == {callback}
prepare(callback, map) == map \cup {callback}

\* the loop over the clipped primitives
RECURSIVE compile_primitives(_, _, _, _, _, _)
compile_primitives(self, meshes, vb_offset, ib_offset, screen_size_physical, screen_size_logical) ==
    IF meshes = <<>> \/ Panicked(self) THEN self
    ELSE
    LET cp == Head(meshes)
        rect == scissor_rect(cp.clip_rect, screen_size_physical, screen_size_logical)
    IN
    IF skipped(rect)
    THEN compile_primitives(self, Tail(meshes), vb_offset, ib_offset,
                            screen_size_physical, screen_size_logical)
    ELSE IF cp.primitive.kind = "Mesh"
    THEN LET new_vb_offset == vb_offset + cp.primitive.vertices * VertexSize
             new_ib_offset == ib_offset + cp.primitive.indices * IndexSize
             copied == [self EXCEPT !.events = @ \o
                          <<[op |-> "copy_from_slice", buffer |-> "vb",
                             from |-> vb_offset, to |-> new_vb_offset],
                            [op |-> "copy_from_slice", buffer |-> "ib",
                             from |-> ib_offset, to |-> new_ib_offset]>>]
         IN  IF base_vertex_of(vb_offset) > I32Max
             THEN [copied EXCEPT
                     !.panic = "failed to fit vertex buffer offset into i32"]
             ELSE compile_primitives(
                      [copied EXCEPT
                        !.events = Append(@, [op |-> "push"]),
                        !.draw_calls = push(@,
                          [kind |-> "Mesh",
                           clip_rect |-> rect,
                           texture_id |-> cp.primitive.texture_id,
                           base_vertex |-> base_vertex_of(vb_offset),
                           index_start |-> ib_offset \div IndexSize,
                           index_end |-> new_ib_offset \div IndexSize])],
                      Tail(meshes), new_vb_offset, new_ib_offset,
                      screen_size_physical, screen_size_logical)
    ELSE compile_primitives(
             [self EXCEPT
                !.custom_data = prepare(cp.primitive.callback, @),
                !.events = @ \o <<[op |-> "prepare",
                                    callback |-> cp.primitive.callback],
                                   [op |-> "push"]>>,
                !.draw_calls = push(@,
                    [kind |-> "Callback",
                     clip_rect |-> rect,
                     paint_callback |-> cp.primitive.callback,
                     paint_callback_info |->
                         [viewport |-> screen_size_logical,
                          clip_rect |-> cp.clip_rect,
                          pixels_per_point |-> <<screen_size_physical[1],
                                                 screen_size_logical[1]>>,
                          screen_size_px |-> screen_size_physical]])],
             Tail(meshes), vb_offset, ib_offset,
             screen_size_physical, screen_size_logical)

\* resize if vertex or index buffer capacities are not enough
grow_buffers(self, vb_total, ib_total) ==
    LET seen == [self EXCEPT !.max_vb_req = Max(@, vb_total),
                             !.max_ib_req = Max(@, ib_total)]
        v == IF needs_growth(seen.vb_len, vb_total)
             THEN [seen EXCEPT
                     !.vb_len = grown_capacity(vb_total),
                     !.events = Append(@, [op |-> "create_buffer", buffer |-> "vb",
                                           size |-> grown_capacity(vb_total) * VertexSize])]
             ELSE seen
    IN  IF needs_growth(v.ib_len, ib_total)
        THEN [v EXCEPT
                !.ib_len = grown_capacity(ib_total),
                !.events = Append(@, [op |-> "create_buffer", buffer |-> "ib",
                                      size |-> grown_capacity(ib_total) * IndexSize])]
        ELSE v

\* queue.write_buffer_with(&self.vb, ..), queue.write_buffer_with(&self.ib, ..)
map_buffers(self) ==
    IF self.vb_len * VertexSize = 0
    THEN [self EXCEPT !.panic = "vertex buffer length should not be zero"]
    ELSE LET v == [self EXCEPT !.events = Append(@,
                      [op |-> "write_buffer_with", buffer |-> "vb",
                       size |-> self.vb_len * VertexSize])]
         IN  IF v.ib_len * IndexSize = 0
             THEN [v EXCEPT !.panic = "index buffer length should not be zero"]
             ELSE [v EXCEPT !.events = Append(@,
                      [op |-> "write_buffer_with", buffer |-> "ib",
                       size |-> v.ib_len * IndexSize])]

geometry_step(self, meshes, screen_size_physical, screen_size_logical) ==
    LET totals == total_lengths(meshes) IN
    IF short_circuit(totals[1]) THEN self
    ELSE compile_primitives(map_buffers(grow_buffers(self, totals[1], totals[2])),
                            meshes, 0, 0, screen_size_physical, screen_size_logical)

(***************************************************************************)
(* EguiPainter::upload_egui_data, the whole call.  data is the EguiGfxData *)
(* [meshes, textures_delta |-> [set, free], screen_size_logical].          *)
(***************************************************************************)
clear_kept(calls) == calls
clear(calls) == <<>>

upload_egui_data_geometry_only(self, data, screen_size_physical) ==
    LET cleared == [self EXCEPT !.draw_calls = clear(@), !.events = <<>>,
                                !.removed = {}]
        textured == texture_step(cleared, data.textures_delta)
    IN  IF short_circuit(total_lengths(data.meshes)[1]) THEN cleared
        ELSE IF Panicked(textured) THEN textured
        ELSE geometry_step(textured, data.meshes, screen_size_physical,
                           data.screen_size_logical)
upload_egui_data(self, data, screen_size_physical) ==
    LET cleared == [self EXCEPT !.draw_calls = clear(@), !.events = <<>>,
                                !.removed = {}]
        textured == texture_step(cleared, data.textures_delta)
    IN  IF Panicked(textured) THEN textured
        ELSE geometry_step(textured, data.meshes, screen_size_physical,
                           data.screen_size_logical)

(***************************************************************************)
(* EguiPainter::draw_egui_with_renderpass.  The render pass is the list of *)
(* commands recorded on it.                                                *)
(***************************************************************************)
RECURSIVE draw_units(_, _, _)
draw_units(self, calls, pass) ==
    IF calls = <<>> \/ pass.panic # "" THEN pass
    ELSE
    LET call == Head(calls)
        scissor == [op |-> "set_scissor_rect", rect |-> call.clip_rect]
    IN
    IF call.kind = "Mesh"
    THEN LET bound == pass.commands \o
                 <<scissor,
                   [op |-> "set_vertex_buffer", offset |-> call.base_vertex * VertexSize]>>
             table == IF call.texture_id.kind = "Managed"
                      THEN self.managed_textures ELSE self.user_textures
         IN  IF call.texture_id.key \notin DOMAIN table
             THEN [commands |-> bound,
                   panic |-> IF call.texture_id.kind = "Managed"
                             THEN "cannot find managed texture"
                             ELSE "cannot find user texture"]
             ELSE draw_units(self, Tail(calls),
                      [pass EXCEPT !.commands = bound \o
                          <<[op |-> "set_bind_group", index |-> 1,
                             bindgroup |-> table[call.texture_id.key].bindgroup],
                            [op |-> "draw_indexed", index_start |-> call.index_start,
                             index_end |-> call.index_end, instances |-> 1]>>])
    ELSE draw_units(self, Tail(calls),
             [pass EXCEPT !.commands = @ \o
                 <<scissor,
                   [op |-> "paint", callback |-> call.paint_callback,
                    info |-> call.paint_callback_info,
                    custom_data |-> self.custom_data]>>])

\* what is bound once, before the loop
PassStart ==
    <<[op |-> "set_pipeline"],
      [op |-> "set_bind_group", index |-> 0, bindgroup |-> "screen_size"],
      [op |-> "set_vertex_buffer", offset |-> 0],
      [op |-> "set_index_buffer"]>>

draw_egui_with_renderpass_lenient(self) ==
    [draw_units(self, self.draw_calls, [commands |-> PassStart, panic |-> ""])
        EXCEPT !.panic = ""]
draw_egui_with_renderpass(self) ==
    draw_units(self, self.draw_calls, [commands |-> PassStart, panic |-> ""])

(***************************************************************************)
(* The reference design of the texture cache: an explicit pending_free     *)
(* queue, drained at the start of the next cache step.                     *)
(***************************************************************************)
ManagedKeysOf(ids) == {t.key : t \in {x \in ids : x.kind = "Managed"}}
FullCreations(set) ==
    {e[1].key : e \in {x \in Range(set) : x[1].kind = "Managed" /\ IsFull(x[2])}}

ref_apply_deltas(cache, pending, creations, frees) ==
    [cache |-> (cache \ ManagedKeysOf(Range(pending))) \cup FullCreations(creations),
     pending_free |-> frees]

(***************************************************************************)
(* WgpuBackend (lib.rs:39-76): the surface, the offscreen render target    *)
(* and the rectangle it occupies on the screen.                            *)
(*                                                                         *)
(* Option<T>: None is <<>>, Some(v) is <<v>>.                              *)
(***************************************************************************)
None == <<>>
Some(v) == <<v>>
IsSome(o) == o # None
IsNone(o) == o = None
Unwrap(o) == o[1]

(***************************************************************************)
(* f32 arithmetic of createRenderTargetRectFromScreenSize.  A positive f32 *)
(* is <<m, k>>, the value m / 2^k with a 24-bit significand 2^23 <= m <    *)
(* 2^24; zero is <<0, 0>>.  Every operation rounds the exact result to the *)
(* nearest f32, ties to even, as IEEE 754 does.  The operands of the model *)
(* (screen sides below 2^24 / 100) keep every intermediate value inside    *)
(* 32-bit integers.                                                        *)
(***************************************************************************)
F32Significand == 24
F32Hidden == 2 ^ (F32Significand - 1)
F32Limit == 2 ^ F32Significand

\* n / d rounded to the nearest integer, ties to even
round_half_even(n, d) ==
    LET q == n \div d
        r == n % d
    IN  IF 2 * r > d \/ (2 * r = d /\ q % 2 = 1) THEN q + 1 ELSE q

\* carry out of the significand after rounding
f32_renormalize(m, k) == IF m = F32Limit THEN <<F32Hidden, k - 1>> ELSE <<m, k>>

RECURSIVE f32_scale_up(_, _, _)
f32_scale_up(n, d, k) == IF n >= F32Hidden * d THEN <<n, k>> ELSE f32_scale_up(2 * n, d, k + 1)

RECURSIVE f32_shift_of(_, _)
f32_shift_of(p, s) == IF p \div (2 ^ s) < F32Limit THEN s ELSE f32_shift_of(p, s + 1)

\* (n as f32) / (d as f32) for integers n, d that f32 holds exactly
f32_div_u32(n, d) ==
    IF n = 0 THEN <<0, 0>>
    ELSE LET scaled == f32_scale_up(n, d, 0)
         IN  f32_renormalize(round_half_even(scaled[1], d), scaled[2])

\* f * (c as f32) for a small integer c
f32_mul_u32(f, c) ==
    IF f[1] = 0 THEN <<0, 0>>
    ELSE LET p == f[1] * c
             s == f32_shift_of(p, 0)
         IN  f32_renormalize(round_half_even(p, 2 ^ s), f[2] - s)

\* `f as u32`: truncation toward zero
f32_as_u32(f) == IF f[2] >= 0 THEN f[1] \div (2 ^ f[2]) ELSE f[1] * 2 ^ (0 - f[2])

(***************************************************************************)
(* RENDER_TARGET_RECT and createRenderTargetRectFromScreenSize.            *)
(***************************************************************************)
RENDER_TARGET_RECT ==
    [margin_top |-> 2, margin_bottom |-> 5, margin_left |-> 7, margin_right |-> 44]

createRenderTargetRectOfFullExtent(screen_width, screen_height) ==
    LET width_percent == f32_div_u32(screen_width, 100)
        height_percent == f32_div_u32(screen_height, 100)
        x == f32_mul_u32(width_percent, RENDER_TARGET_RECT.margin_left)
        width == f32_mul_u32(width_percent, 100)
        y == f32_mul_u32(height_percent, RENDER_TARGET_RECT.margin_top)
        height == f32_mul_u32(height_percent, 100)
    IN  [x |-> f32_as_u32(x), y |-> f32_as_u32(y),
         width |-> f32_as_u32(width), height |-> f32_as_u32(height),
         screen_width |-> screen_width, screen_height |-> screen_height]

createRenderTargetRectFromScreenSize(screen_width, screen_height) ==
    LET width_percent == f32_div_u32(screen_width, 100)
        height_percent == f32_div_u32(screen_height, 100)
        x == f32_mul_u32(width_percent, RENDER_TARGET_RECT.margin_left)
        width == f32_mul_u32(width_percent,
                     100 - RENDER_TARGET_RECT.margin_left - RENDER_TARGET_RECT.margin_right)
        y == f32_mul_u32(height_percent, RENDER_TARGET_RECT.margin_top)
        height == f32_mul_u32(height_percent,
                     100 - RENDER_TARGET_RECT.margin_top - RENDER_TARGET_RECT.margin_bottom)
    IN  [x |-> f32_as_u32(x), y |-> f32_as_u32(y),
         width |-> f32_as_u32(width), height |-> f32_as_u32(height),
         screen_width |-> screen_width, screen_height |-> screen_height]

(***************************************************************************)
(* The window backend as WgpuBackend sees it: get_window() is Some while   *)
(* the window exists, get_live_physical_size_framebuffer() is its size in  *)
(* physical pixels, supported_formats what a surface on it supports.       *)
(***************************************************************************)
get_window(w) == IF w.exists THEN Some("window") ELSE None
get_live_physical_size_framebuffer(w) == IF w.exists THEN Some(w.size) ELSE None

(***************************************************************************)
(* A WgpuBackend call in progress: the backend's fields, the device and    *)
(* surface calls made so far, and the panic that ended the call, if any.   *)
(***************************************************************************)
Run(self, call) == [self |-> self, calls |-> <<call>>, panic |-> ""]
Aborted(run) == run.panic # ""
Abort(run, message) == [run EXCEPT !.panic = message]
Called(run, call) == [run EXCEPT !.calls = Append(@, call)]
UnwrapNone == "called Option::unwrap() on a None value"

\* the RenderTarget bundle: a texture of the given size and a view of that texture
create_offscreen_render_target(width, height) ==
    Some([texture |-> <<width, height>>, view |-> <<width, height>>,
          width |-> width, height |-> height, label |-> "render target texture"])

updateRenderTargetRect(self, screen_width, screen_height) ==
    LET rect == createRenderTargetRectFromScreenSize(screen_width, screen_height)
    IN  [self |-> [self EXCEPT !.render_target_rect = Some(rect)],
         size |-> <<rect.width, rect.height>>]

do_resize_always(self, width, height) == TRUE
do_resize_width_only(self, width, height) == self.last_surface_width # width
do_resize(self, width, height) ==
    self.last_surface_height # height \/ self.last_surface_width # width

resize_render_target(run, width, height) ==
    LET entered == Called(run, [op |-> "resize_render_target", width |-> width, height |-> height])
        recorded == [entered.self EXCEPT !.last_surface_height = height,
                                         !.last_surface_width = width]
        updated == updateRenderTargetRect(recorded, width, height)
        target == create_offscreen_render_target(updated.size[1], updated.size[2])
    IN  IF ~do_resize(run.self, width, height) THEN entered
        ELSE IF ~run.self.use_offscreen_render_target THEN [entered EXCEPT !.self = recorded]
        ELSE Called([entered EXCEPT !.self = [updated.self EXCEPT !.offscreen_render_target = target]],
                    [op |-> "create_offscreen_render_target",
                     width |-> updated.size[1], height |-> updated.size[2]])

\* the first format of the priority list the surface supports, else the first supported one
RECURSIVE first_supported(_, _)
first_supported(priority, supported) ==
    IF priority = <<>> THEN None
    ELSE IF priority[1] \in Range(supported) THEN Some(priority[1])
    ELSE first_supported(Tail(priority), supported)

configure(run) ==
    Called(run, [op |-> "configure", width |-> run.self.surface_config.width,
                 height |-> run.self.surface_config.height])

reconfigure_surface(run, w) ==
    IF IsSome(run.self.surface) THEN run
    ELSE IF IsNone(get_window(w)) THEN run
    ELSE LET choice == first_supported(run.self.surface_formats_priority, w.supported_formats)
             created == [run EXCEPT !.self.surface = Some("surface")]
             size == Unwrap(get_live_physical_size_framebuffer(w))
         IN  IF IsNone(choice) /\ w.supported_formats = <<>>
             THEN Abort(created, "surface has zero supported texture formats")
             ELSE configure([created EXCEPT
                     !.self.surface_config.format =
                         IF IsSome(choice) THEN Unwrap(choice) ELSE w.supported_formats[1],
                     !.self.surface_config.width = size[1],
                     !.self.surface_config.height = size[2]])

(***************************************************************************)
(* EguiPainter::new and EguiPainter::on_resume: the pipeline is compiled   *)
(* for a surface format, which must be an sRGB one.                        *)
(***************************************************************************)
IsSrgb(format) == format \in {"Bgra8UnormSrgb", "Rgba8UnormSrgb"}
create_render_pipeline(pipeline_surface_format) == [format |-> pipeline_surface_format]

on_resume(run, surface_format) ==
    IF run.self.painter.surface_format = surface_format THEN run
    ELSE IF ~IsSrgb(surface_format)
    THEN Abort(run, "egui wgpu only supports srgb compatible framebuffer")
    ELSE [run EXCEPT !.self.painter.pipeline = create_render_pipeline(surface_format)]

(***************************************************************************)
(* WgpuBackend::new_async with WgpuConfig::default().  The surface is      *)
(* created from the window before reconfigure_surface is called, and the   *)
(* framebuffer size is unwrapped: construction needs a window.             *)
(***************************************************************************)
DefaultConfig ==
    [surface_formats_priority |-> <<"Bgra8UnormSrgb", "Rgba8UnormSrgb">>,
     surface_config |-> [format |-> "Bgra8UnormSrgb", width |-> 0, height |-> 0]]

new_async(w, config, use_offscreen_render_target) ==
    LET framebuffer_size == Unwrap(get_live_physical_size_framebuffer(w))
        created == [surface |-> IF IsSome(get_window(w)) THEN Some("surface") ELSE None,
                    surface_formats_priority |-> config.surface_formats_priority,
                    surface_config |-> [config.surface_config EXCEPT
                                           !.width = framebuffer_size[1],
                                           !.height = framebuffer_size[2]]]
        reconfigured == reconfigure_surface(Run(created, [op |-> "new_async"]), w).self
        surface_config == reconfigured.surface_config
        rect == createRenderTargetRectFromScreenSize(surface_config.width, surface_config.height)
    IN  [surface |-> reconfigured.surface,
         surface_formats_priority |-> config.surface_formats_priority,
         surface_config |-> surface_config,
         surface_view |-> None,
         surface_current_texture |-> None,
         command_encoders |-> <<>>,
         use_offscreen_render_target |-> use_offscreen_render_target,
         offscreen_render_target |->
             IF use_offscreen_render_target
             THEN create_offscreen_render_target(rect.width, rect.height) ELSE None,
         render_target_rect |-> IF use_offscreen_render_target THEN Some(rect) ELSE None,
         last_surface_height |-> framebuffer_size[2],
         last_surface_width |-> framebuffer_size[1],
         painter |-> [surface_format |-> surface_config.format,
                      pipeline |-> create_render_pipeline(surface_config.format)]]

(***************************************************************************)
(* WgpuBackend::suspend, resume, prepare_frame and present.                *)
(***************************************************************************)
suspend_surface_only(run) == [run EXCEPT !.self.surface = None]
suspend(run) ==
    [run EXCEPT !.self.surface = None,
                !.self.surface_current_texture = None,
                !.self.surface_view = None]

resume(run, w) ==
    LET reconfigured == reconfigure_surface(run, w)
        resumed == on_resume(reconfigured, reconfigured.self.surface_config.format)
    IN  IF Aborted(reconfigured) THEN reconfigured
        ELSE IF Aborted(resumed) THEN resumed
        ELSE resize_render_target(resumed, resumed.self.surface_config.width,
                                  resumed.self.surface_config.height)

\* the framebuffer_size_update block of prepare_frame
deliver_size(run, w) ==
    LET size == get_live_physical_size_framebuffer(w)
        sized == [run EXCEPT !.self.surface_config.width = Unwrap(size)[1],
                             !.self.surface_config.height = Unwrap(size)[2]]
    IN  IF IsNone(size) THEN Abort(run, UnwrapNone)
        ELSE IF IsNone(run.self.surface) THEN Abort(sized, UnwrapNone)
        ELSE resize_render_target(configure(sized), sized.self.surface_config.width,
                                  sized.self.surface_config.height)

acquire_once(run, w, first_ok, retry_ok) ==
    LET first == Called(run, [op |-> "get_current_texture"])
    IN  IF first_ok THEN first
        ELSE Abort(first, "failed to get surface even after reconfiguration")
\* surface.get_current_texture() with the unwrap_or_else that reconfigures and retries
acquire(run, w, first_ok, retry_ok) ==
    LET first == Called(run, [op |-> "get_current_texture"])
        size == get_live_physical_size_framebuffer(w)
        sized == [first EXCEPT !.self.surface_config.width = Unwrap(size)[1],
                               !.self.surface_config.height = Unwrap(size)[2]]
        retried == Called(configure(sized), [op |-> "get_current_texture"])
    IN  IF first_ok THEN first
        ELSE IF IsNone(size) THEN Abort(first, UnwrapNone)
        ELSE IF ~retry_ok THEN Abort(retried, "failed to get surface even after reconfiguration")
        ELSE retried

prepare_frame(run, framebuffer_size_update, w, first_ok, retry_ok) ==
    LET delivered == IF framebuffer_size_update THEN deliver_size(run, w) ELSE run
        acquired == acquire(delivered, w, first_ok, retry_ok)
    IN  IF Aborted(delivered) THEN delivered
        ELSE IF IsSome(delivered.self.surface_current_texture)
        THEN Abort(delivered, "assertion failed: self.surface_current_texture.is_none()")
        ELSE IF IsSome(delivered.self.surface_view)
        THEN Abort(delivered, "assertion failed: self.surface_view.is_none()")
        ELSE IF IsNone(delivered.self.surface) THEN delivered
        ELSE IF Aborted(acquired) THEN acquired
        ELSE [acquired EXCEPT !.self.surface_view = Some("surface view"),
                              !.self.surface_current_texture = Some("surface texture")]

\* Mutex::lock on offscreen_render_target: taken only while no thread holds it
can_lock_always(mutex) == TRUE
can_lock(mutex) == mutex = "unlocked"

\* the call replaces the offscreen target (resize_render_target reaches its lock)
replaces_target(run) ==
    \E i \in 1..Len(run.calls) : run.calls[i].op = "create_offscreen_render_target"

\* the guarded Option while the assignment of the new bundle is half done
half_assigned(old, new) ==
    IF IsNone(old) THEN old
    ELSE Some([Unwrap(old) EXCEPT !.texture = Unwrap(new).texture,
                                  !.width = Unwrap(new).width])

present_then_submit(run) ==
    LET taken == [run EXCEPT !.self.surface_view = None, !.self.surface_current_texture = None]
        presented == Called(taken, [op |-> "surface_texture.present"])
    IN  IF IsNone(run.self.surface_view)
        THEN Abort(run, "failed to get surface view to present")
        ELSE IF IsNone(run.self.surface_current_texture)
        THEN Abort(run, "failed to surface texture to preset")
        ELSE Called([presented EXCEPT !.self.command_encoders = <<>>],
                    [op |-> "submit", encoders |-> run.self.command_encoders])
present_keeps_texture(run) ==
    LET submitted == Called([run EXCEPT !.self.command_encoders = <<>>],
                            [op |-> "submit", encoders |-> run.self.command_encoders])
        viewed == [submitted EXCEPT !.self.surface_view = None]
    IN  IF IsNone(run.self.surface_view)
        THEN Abort(submitted, "failed to get surface view to present")
        ELSE Called(viewed, [op |-> "surface_texture.present"])
present(run) ==
    LET submitted == Called([run EXCEPT !.self.command_encoders = <<>>],
                            [op |-> "submit", encoders |-> run.self.command_encoders])
        viewed == [submitted EXCEPT !.self.surface_view = None]
        taken == [viewed EXCEPT !.self.surface_current_texture = None]
    IN  IF IsNone(run.self.surface_view)
        THEN Abort(submitted, "failed to get surface view to present")
        ELSE IF IsNone(run.self.surface_current_texture)
        THEN Abort(viewed, "failed to surface texture to preset")
        ELSE Called(taken, [op |-> "surface_texture.present"])

(***************************************************************************)
(* WgpuBackend::mouse_pos_screen_to_render_target_space.  A cursor         *)
(* coordinate is <<n, k>>, the f32 n / 2^k; the difference is rounded to   *)
(* the nearest f32.                                                        *)
(***************************************************************************)
f32_sub_u32(f, r) ==
    LET d == f[1] - r * 2 ^ f[2]
        a == IF d < 0 THEN 0 - d ELSE d
        s == f32_shift_of(a, 0)
        rounded == round_half_even(a, 2 ^ s) * 2 ^ s
    IN  <<IF d < 0 THEN 0 - rounded ELSE rounded, f[2]>>

mouse_pos_passed_through(run, x, y) == Called(run, [op |-> "return", value |-> <<x, y>>])
mouse_pos_screen_to_render_target_space(run, x, y) ==
    IF ~run.self.use_offscreen_render_target
    THEN Called(run, [op |-> "return", value |-> <<x, y>>])
    ELSE IF IsNone(run.self.render_target_rect) THEN Abort(run, UnwrapNone)
    ELSE LET rect == Unwrap(run.self.render_target_rect)
         IN  Called(run, [op |-> "return",
                          value |-> <<f32_sub_u32(x, rect.x), f32_sub_u32(y, rect.y)>>])

(***************************************************************************)
(* WgpuBackend::render.  The painter uploads the frame for the screen size *)
(* the backend chose, then one command encoder records one render pass on  *)
(* the view the backend chose and is pushed onto command_encoders.  The    *)
(* result is the call, the painter after it and the commands of the pass.  *)
(***************************************************************************)
render_screen_size(self) ==
    IF self.use_offscreen_render_target
    THEN <<Unwrap(self.render_target_rect).width, Unwrap(self.render_target_rect).height>>
    ELSE <<self.surface_config.width, self.surface_config.height>>

render_view_surface(self) == "surface view"
render_view(self) ==
    IF IsNone(self.offscreen_render_target) THEN "surface view" ELSE "render target view"

render(run, painter, egui_gfx_data) ==
    LET self == run.self
        screen_size == render_screen_size(self)
        uploading == Called(run, [op |-> "upload_egui_data", screen_size |-> screen_size])
        uploaded == upload_egui_data(painter, egui_gfx_data, screen_size)
        view == render_view(self)
        recording == Called(uploading, [op |-> "begin_render_pass", view |-> view])
        pass == draw_egui_with_renderpass(uploaded)
        encoder == [label |-> "egui command encoder", view |-> view]
    IN  IF self.use_offscreen_render_target /\ IsNone(self.render_target_rect)
        THEN [run |-> Abort(run, UnwrapNone), painter |-> painter, commands |-> <<>>]
        ELSE IF Panicked(uploaded)
        THEN [run |-> Abort(uploading, uploaded.panic), painter |-> uploaded, commands |-> <<>>]
        ELSE IF IsNone(self.offscreen_render_target) /\ IsNone(self.surface_view)
        THEN [run |-> Abort(uploading, "failed ot get surface view for egui render pass creation"),
              painter |-> uploaded, commands |-> <<>>]
        ELSE IF pass.panic # ""
        THEN [run |-> Abort(recording, pass.panic), painter |-> uploaded,
              commands |-> pass.commands]
        ELSE [run |-> [recording EXCEPT !.self.command_encoders = Append(@, encoder)],
              painter |-> uploaded, commands |-> pass.commands]

(***************************************************************************)
(* Initial state: EguiPainter::new.                                        *)
(***************************************************************************)
\* no register call has returned yet
NoTextureId == [kind |-> "None", key |-> 0]

NoFrame ==
    [meshes |-> <<>>, free |-> <<>>, creates |-> {},
     screen_size_logical |-> <<0, 0>>, screen_size_physical |-> <<0, 0>>]

\* the mutex unlocked, no resize in its critical section, nothing read by another thread
Unshared == [mutex |-> "unlocked", resizing |-> None, observed |-> None]

(***************************************************************************)
(* GlfwBackend: the fields the event loop reads and writes, the events     *)
(* queued for the window since the last poll (events_receiver), and the    *)
(* loop's position (at) and frame count (frames, capped at 2).             *)
(***************************************************************************)
FramebufferSize(size) == [kind |-> "FramebufferSize", size |-> size]
CursorPos == [kind |-> "CursorPos", size |-> <<0, 0>>]

\* GlfwBackend::new: an 800x600 window, no event yet, the resize flag raised
GlfwNew ==
    [resized_event_pending |-> TRUE, frame_events |-> <<>>,
     size_physical_pixels |-> <<800, 600>>, events_receiver |-> <<>>,
     should_close |-> FALSE, at |-> "tick", frames |-> 0]

\* the match arm of one flushed event
tick_event(self, event) ==
    LET pushed == [self EXCEPT !.frame_events = Append(@, event)]
    IN  IF event.kind = "FramebufferSize"
        THEN [pushed EXCEPT !.size_physical_pixels = event.size,
                            !.resized_event_pending = TRUE]
        ELSE pushed

RECURSIVE flush_messages(_, _)
flush_messages(self, messages) ==
    IF messages = <<>> THEN self
    ELSE flush_messages(tick_event(self, Head(messages)), Tail(messages))

\* GlfwBackend::tick: poll, clear frame_events, then handle every event of the channel
tick(self) ==
    flush_messages([self EXCEPT !.frame_events = <<>>, !.events_receiver = <<>>],
                   self.events_receiver)

\* the statement after prepare_frame in run_event_loop
resize_flag_kept(self) == self
resize_flag_cleared(self) == [self EXCEPT !.resized_event_pending = FALSE]

InitPainter ==
    /\ pc = "ready"
    /\ panic = ""
    /\ vb_len = 0
    /\ ib_len = 0
    /\ managed_textures = EmptyMap
    /\ user_textures = EmptyMap
    /\ next_user_texture_id = 0
    /\ delete_textures = <<>>
    /\ draw_calls = <<>>
    /\ events = <<>>
    /\ removed = {}
    /\ rpass = <<>>
    /\ frame = NoFrame
    /\ max_vb_req = 0
    /\ max_ib_req = 0
    /\ ref_cache = {}
    /\ pending_free = <<>>
    /\ registered = NoTextureId
    /\ custom_data = {}
    /\ glfw = GlfwNew

\* a desktop window of 800x600 physical pixels, rendered to directly
DefaultWindow ==
    [exists |-> TRUE, size |-> <<800, 600>>, supported_formats |-> <<"Bgra8UnormSrgb">>]

Init ==
    /\ InitPainter
    /\ window = DefaultWindow
    /\ backend = new_async(DefaultWindow, DefaultConfig, FALSE)
    /\ backend_calls = <<>>
    /\ shared = Unshared

(***************************************************************************)
(* Actions: the two painter calls of a frame, in the order of              *)
(* WgpuBackend::render.                                                    *)
(***************************************************************************)
Upload(data, screen_size_physical) ==
    /\ pc \in {"ready", "drawn"}
    /\ \E s \in {upload_egui_data(Self, data, screen_size_physical)},
          ref \in {ref_apply_deltas(ref_cache, pending_free,
                                    data.textures_delta.set, data.textures_delta.free)} :
           /\ pc' = IF Panicked(s) THEN "panicked" ELSE "uploaded"
           /\ panic' = s.panic
           /\ vb_len' = s.vb_len
           /\ ib_len' = s.ib_len
           /\ managed_textures' = s.managed_textures
           /\ delete_textures' = s.delete_textures
           /\ draw_calls' = s.draw_calls
           /\ events' = s.events
           /\ removed' = s.removed
           /\ max_vb_req' = s.max_vb_req
           /\ max_ib_req' = s.max_ib_req
           /\ custom_data' = s.custom_data
           /\ user_textures' = s.user_textures
           /\ next_user_texture_id' = s.next_user_texture_id
           /\ ref_cache' = IF Panicked(s) THEN ref_cache ELSE ref.cache
           /\ pending_free' = IF Panicked(s) THEN pending_free ELSE ref.pending_free
    /\ rpass' = <<>>
    /\ frame' = [meshes |-> data.meshes,
                 free |-> data.textures_delta.free,
                 creates |-> FullCreations(data.textures_delta.set),
                 screen_size_logical |-> data.screen_size_logical,
                 screen_size_physical |-> screen_size_physical]
    /\ UNCHANGED <<registered, backend, window, backend_calls, shared, glfw>>

Draw ==
    /\ pc = "uploaded"
    /\ \E pass \in {draw_egui_with_renderpass(Self)} :
           /\ rpass' = pass.commands
           /\ panic' = pass.panic
           /\ pc' = IF pass.panic # "" THEN "panicked" ELSE "drawn"
    /\ UNCHANGED <<vb_len, ib_len, managed_textures, user_textures,
                   next_user_texture_id, delete_textures, draw_calls, events,
                   removed, frame, max_vb_req, max_ib_req, ref_cache, pending_free,
                   registered, backend, window, backend_calls, shared, custom_data, glfw>>

(***************************************************************************)
(* EguiPainter::register_native_texture_with_sampler_options, called       *)
(* between frames.  The sampler is created from the descriptor with        *)
(* compare: None, the bind-group from that sampler and the caller's view.  *)
(***************************************************************************)
create_sampler(sampler_descriptor) == [sampler_descriptor EXCEPT !.compare = "None"]

next_id_same(id) == id
next_id(id) == id + 1

register_native_texture_with_sampler_options(self, view, sampler_descriptor) ==
    LET bindgroup == [sampler |-> create_sampler(sampler_descriptor), view |-> view]
        key == UserId(self.next_user_texture_id)
    IN  [key |-> key,
         self |-> [self EXCEPT
                     !.user_textures =
                         With(@, self.next_user_texture_id,
                              [texture |-> "None", view |-> "None",
                               bindgroup |-> bindgroup]),
                     !.next_user_texture_id = next_id(@)]]

Register(view, sampler_descriptor) ==
    /\ pc \in {"ready", "drawn"}
    /\ next_user_texture_id < MaxUserTextures
    /\ \E r \in {register_native_texture_with_sampler_options(Self, view, sampler_descriptor)} :
           /\ registered' = r.key
           /\ user_textures' = r.self.user_textures
           /\ next_user_texture_id' = r.self.next_user_texture_id
    /\ UNCHANGED <<pc, panic, vb_len, ib_len, managed_textures, delete_textures,
                   draw_calls, events, removed, rpass, frame, max_vb_req, max_ib_req,
                   ref_cache, pending_free, backend, window, backend_calls, shared, custom_data, glfw>>

(***************************************************************************)
(* Actions of the backend: the GfxBackend calls a window backend makes,    *)
(* and the window changing under it.  A call that panics leaves the fields *)
(* as they were at the panic.                                              *)
(***************************************************************************)
gfx_call(run) ==
    /\ backend' = run.self
    /\ backend_calls' = run.calls
    /\ panic' = run.panic
    /\ pc' = IF Aborted(run) THEN "panicked" ELSE pc
    /\ UNCHANGED <<vb_len, ib_len, managed_textures, user_textures, next_user_texture_id,
                   delete_textures, draw_calls, events, removed, rpass, frame,
                   max_vb_req, max_ib_req, ref_cache, pending_free, registered, window, shared, custom_data>>

\* a call of the backend from outside the event loop
BackendRun(run) == gfx_call(run) /\ UNCHANGED glfw

Suspend ==
    /\ pc # "panicked"
    /\ BackendRun(suspend(Run(backend, [op |-> "suspend"])))

Resume ==
    /\ pc # "panicked"
    /\ BackendRun(resume(Run(backend, [op |-> "resume"]), window))

PrepareFrame(framebuffer_size_update, first_ok, retry_ok) ==
    /\ pc # "panicked"
    /\ BackendRun(prepare_frame(Run(backend, [op |-> "prepare_frame",
                                              framebuffer_size_update |-> framebuffer_size_update]),
                                framebuffer_size_update, window, first_ok, retry_ok))

Present ==
    /\ pc # "panicked"
    /\ can_lock(shared.mutex)
    /\ BackendRun(present(Run(backend, [op |-> "present"])))

\* the window is resized, destroyed or created
WindowEvent(w) ==
    /\ pc # "panicked"
    /\ window' = w
    /\ UNCHANGED <<pc, panic, vb_len, ib_len, managed_textures, user_textures,
                   next_user_texture_id, delete_textures, draw_calls, events, removed,
                   rpass, frame, max_vb_req, max_ib_req, ref_cache, pending_free,
                   registered, backend, backend_calls, shared, custom_data, glfw>>

\* a frame rendered: upload and draw in one call
gfx_render(data) ==
    /\ pc \in {"ready", "drawn"}
    /\ Len(backend.command_encoders) < MaxEncoders
    /\ can_lock(shared.mutex)
    /\ \E r \in {render(Run(backend, [op |-> "render"]), Self, data)},
          ref \in {ref_apply_deltas(ref_cache, pending_free,
                                    data.textures_delta.set, data.textures_delta.free)} :
           /\ backend' = r.run.self
           /\ backend_calls' = r.run.calls
           /\ panic' = r.run.panic
           /\ pc' = IF Aborted(r.run) THEN "panicked" ELSE "drawn"
           /\ vb_len' = r.painter.vb_len
           /\ ib_len' = r.painter.ib_len
           /\ managed_textures' = r.painter.managed_textures
           /\ delete_textures' = r.painter.delete_textures
           /\ draw_calls' = r.painter.draw_calls
           /\ events' = r.painter.events
           /\ removed' = r.painter.removed
           /\ max_vb_req' = r.painter.max_vb_req
           /\ max_ib_req' = r.painter.max_ib_req
           /\ custom_data' = r.painter.custom_data
           /\ user_textures' = r.painter.user_textures
           /\ next_user_texture_id' = r.painter.next_user_texture_id
           /\ rpass' = r.commands
           /\ ref_cache' = IF Panicked(r.painter) THEN ref_cache ELSE ref.cache
           /\ pending_free' = IF Panicked(r.painter) THEN pending_free ELSE ref.pending_free
           /\ frame' = [meshes |-> data.meshes,
                        free |-> data.textures_delta.free,
                        creates |-> FullCreations(data.textures_delta.set),
                        screen_size_logical |-> data.screen_size_logical,
                        screen_size_physical |-> render_screen_size(backend)]
    /\ UNCHANGED <<registered, window, shared>>

Render(data) == gfx_render(data) /\ UNCHANGED glfw

\* the window backend maps a cursor position
MousePos(x, y) ==
    /\ pc # "panicked"
    /\ BackendRun(mouse_pos_screen_to_render_target_space(
           Run(backend, [op |-> "mouse_pos_screen_to_render_target_space", x |-> x, y |-> y]),
           x, y))

\* a caller of the public function createRenderTargetRectFromScreenSize
CreateRect(screen_width, screen_height) ==
    /\ backend_calls' =
           <<[op |-> "createRenderTargetRectFromScreenSize",
              screen_width |-> screen_width, screen_height |-> screen_height,
              rect |-> createRenderTargetRectFromScreenSize(screen_width, screen_height)]>>
    /\ UNCHANGED <<pc, panic, vb_len, ib_len, managed_textures, user_textures,
                   next_user_texture_id, delete_textures, draw_calls, events, removed,
                   rpass, frame, max_vb_req, max_ib_req, ref_cache, pending_free,
                   registered, backend, window, shared, custom_data, glfw>>

(***************************************************************************)
(* The critical section of resize_render_target, step by step, with        *)
(* another thread that holds a clone of the offscreen_render_target Arc.   *)
(* The fields only the backend's own thread reaches (&mut self) are        *)
(* committed when the call returns; the guarded Option is written while    *)
(* the mutex is held.                                                      *)
(***************************************************************************)
SharedUnchanged ==
    UNCHANGED <<pc, panic, vb_len, ib_len, managed_textures, user_textures,
                next_user_texture_id, delete_textures, draw_calls, events, removed,
                rpass, frame, max_vb_req, max_ib_req, ref_cache, pending_free,
                registered, window, backend_calls, custom_data, glfw>>

\* the call that reaches the lock of resize_render_target takes the mutex
ResizeLock(run) ==
    /\ pc # "panicked"
    /\ IsNone(shared.resizing)
    /\ replaces_target(run)
    /\ can_lock(shared.mutex)
    /\ shared' = [shared EXCEPT !.mutex = "backend", !.resizing = Some(run)]
    /\ UNCHANGED backend
    /\ SharedUnchanged

\* *render_target = create_offscreen_render_target(..), the assignment under way
ResizeWrite ==
    /\ IsSome(shared.resizing)
    /\ backend.offscreen_render_target # Unwrap(shared.resizing).self.offscreen_render_target
    /\ backend.offscreen_render_target #
           half_assigned(backend.offscreen_render_target,
                         Unwrap(shared.resizing).self.offscreen_render_target)
    /\ backend' = [backend EXCEPT !.offscreen_render_target =
                       half_assigned(@, Unwrap(shared.resizing).self.offscreen_render_target)]
    /\ UNCHANGED shared
    /\ SharedUnchanged

\* the assignment completes, the guard is dropped and the call runs to its return or panic
ResizeUnlock ==
    /\ IsSome(shared.resizing)
    /\ backend' = Unwrap(shared.resizing).self
    /\ backend_calls' = Unwrap(shared.resizing).calls
    /\ shared' = [shared EXCEPT !.mutex = "unlocked", !.resizing = None]
    /\ panic' = Unwrap(shared.resizing).panic
    /\ pc' = IF Aborted(Unwrap(shared.resizing)) THEN "panicked" ELSE pc
    /\ UNCHANGED <<vb_len, ib_len, managed_textures, user_textures,
                   next_user_texture_id, delete_textures, draw_calls, events, removed,
                   rpass, frame, max_vb_req, max_ib_req, ref_cache, pending_free,
                   registered, window, custom_data, glfw>>

\* the other thread locks its clone of the handle
ReaderLock ==
    /\ shared.mutex # "reader"
    /\ can_lock(shared.mutex)
    /\ shared' = [shared EXCEPT !.mutex = "reader"]
    /\ UNCHANGED backend
    /\ SharedUnchanged

\* and reads the Option behind the guard
ReaderRead ==
    /\ shared.mutex = "reader"
    /\ shared' = [shared EXCEPT !.observed = Some(backend.offscreen_render_target)]
    /\ UNCHANGED backend
    /\ SharedUnchanged

ReaderUnlock ==
    /\ shared.mutex = "reader"
    /\ shared' = [shared EXCEPT !.mutex = IF IsSome(shared.resizing) THEN "backend"
                                          ELSE "unlocked"]
    /\ UNCHANGED backend
    /\ SharedUnchanged

(***************************************************************************)
(* Spec: the texture cache under every texture delta, with little geometry.*)
(***************************************************************************)
ManagedKeys == {0, 1}
UserKeys == {0}
TexIds == {ManagedId(k) : k \in ManagedKeys} \cup {UserId(k) : k \in UserKeys}
TexImage == [width |-> 1, height |-> 1, pixels |-> "a"]
TexDeltas ==
    {[pos |-> p, image |-> TexImage, magnification |-> "Linear"] : p \in {NonePos, <<0, 0>>}}
\* a frame's texture delta: at most MaxDeltaEntries entries, creations and frees together
TexturesDeltas ==
    {[set |-> s, free |-> f] :
        <<s, f>> \in {x \in SeqsUpTo(TexIds \X TexDeltas, MaxDeltaEntries)
                              \X SeqsUpTo(TexIds, MaxDeltaEntries) :
                        Len(x[1]) + Len(x[2]) <= MaxDeltaEntries}}
\* a frame draws nothing, or one quad with the font atlas, Managed(0)
Quad(t) == [clip_rect |-> Rect(0, 0, 800, 600), primitive |-> MeshPrimitive(4, 6, t)]
TexMeshes == {<<>>, <<Quad(ManagedId(0))>>}
TexFrames ==
    {[meshes |-> m, textures_delta |-> d, screen_size_logical |-> <<800, 600>>] :
        m \in TexMeshes, d \in TexturesDeltas}

Next ==
    \/ \E data \in TexFrames : Upload(data, <<800, 600>>)
    \/ Draw

Spec == Init /\ [][Next]_vars

(***************************************************************************)
(* SpecGeom: the geometry of a frame on an 800x600 screen at scale 1.  The *)
(* meshes are as the tessellator emits them (every index names a vertex of *)
(* its mesh, so a mesh without vertices has no indices), all textured with *)
(* the font atlas, which the first frame's delta creates.                  *)
(***************************************************************************)
FullClip(logical) == Rect(0, 0, logical[1], logical[2])
\* a clip rectangle right of the screen
RightOfScreen(logical) == Rect(logical[1], 0, logical[1] + 1, logical[2])
FontAtlas == ManagedId(0)
FontAtlasDelta ==
    IF FontAtlas.key \in DOMAIN managed_textures
    THEN [set |-> <<>>, free |-> <<>>]
    ELSE [set |-> <<<<FontAtlas, [pos |-> NonePos, image |-> TexImage,
                                  magnification |-> "Linear"]>>>>,
          free |-> <<>>]
GeomPrims ==
    {[clip_rect |-> FullClip(<<800, 600>>), primitive |-> MeshPrimitive(4, 6, FontAtlas)],
     [clip_rect |-> FullClip(<<800, 600>>), primitive |-> MeshPrimitive(3, 3, FontAtlas)],
     [clip_rect |-> FullClip(<<800, 600>>), primitive |-> MeshPrimitive(0, 0, FontAtlas)],
     [clip_rect |-> RightOfScreen(<<800, 600>>), primitive |-> MeshPrimitive(4, 6, FontAtlas)],
     [clip_rect |-> FullClip(<<800, 600>>), primitive |-> CallbackPrimitive("cb")],
     [clip_rect |-> RightOfScreen(<<800, 600>>), primitive |-> CallbackPrimitive("cb")]}
GeomFrames ==
    {[meshes |-> m, textures_delta |-> FontAtlasDelta, screen_size_logical |-> <<800, 600>>] :
        m \in SeqsUpTo(GeomPrims, MaxPrims)}

NextGeom ==
    \/ \E data \in GeomFrames : Upload(data, <<800, 600>>)
    \/ Draw

SpecGeom == Init /\ [][NextGeom]_vars

(***************************************************************************)
(* SpecClip: clip rectangles against screens of scale 1, 2 and 1/2.  A     *)
(* screen is <<screen_size_physical, screen_size_logical>>.                *)
(***************************************************************************)
Screens == {<<<<800, 600>>, <<800, 600>>>>, <<<<4, 2>>, <<2, 1>>>>, <<<<4, 4>>, <<8, 8>>>>}
ClipRects(logical) ==
    {FullClip(logical),
     Rect(0 - 1, 0 - 1, logical[1] + 1, logical[2] + 1),
     Rect(1, 0, 1, logical[2]),
     RightOfScreen(logical),
     Rect(0, logical[2], logical[1], logical[2] + 1),
     Rect(1, 1, 0, 0),
     Rect(1, 0, 2, 1)}
ClipPrims(logical) ==
    {[clip_rect |-> c, primitive |-> p] :
        c \in ClipRects(logical),
        p \in {MeshPrimitive(4, 6, FontAtlas), CallbackPrimitive("cb")}}
ClipFrames(logical) ==
    {[meshes |-> m, textures_delta |-> FontAtlasDelta, screen_size_logical |-> logical] :
        m \in SeqsUpTo(ClipPrims(logical), MaxClipPrims)}

NextClip ==
    \/ \E screen \in Screens : \E data \in ClipFrames(screen[2]) : Upload(data, screen[1])
    \/ Draw

SpecClip == Init /\ [][NextClip]_vars

(***************************************************************************)
(* SpecImages: texture deltas that differ in pixels and size.  Full        *)
(* creations of a 1x1 and of a 2x1 image and a partial update, a 1x1 patch *)
(* at [0, 0]; texture 0 is never freed.                                    *)
(***************************************************************************)
ImageB == [width |-> 2, height |-> 1, pixels |-> "b"]
ImagePatch == [width |-> 1, height |-> 1, pixels |-> "c"]
ImgDeltas ==
    {[pos |-> NonePos, image |-> TexImage, magnification |-> "Linear"],
     [pos |-> NonePos, image |-> ImageB, magnification |-> "Nearest"],
     [pos |-> <<0, 0>>, image |-> ImagePatch, magnification |-> "Linear"]}
ImgFrames ==
    {[meshes |-> m, textures_delta |-> [set |-> s, free |-> f],
      screen_size_logical |-> <<800, 600>>] :
        m \in TexMeshes,
        s \in SeqsUpTo({ManagedId(k) : k \in ManagedKeys} \X ImgDeltas, MaxImageDeltas),
        f \in {<<>>, <<ManagedId(1)>>}}

NextImages ==
    \/ \E data \in ImgFrames : Upload(data, <<800, 600>>)
    \/ Draw

SpecImages == Init /\ [][NextImages]_vars

(***************************************************************************)
(* SpecUser: registered user textures and meshes that name them.  The font *)
(* atlas arrives with some frame or never.                                 *)
(***************************************************************************)
SamplerDescriptors ==
    {[mag_filter |-> "Linear", compare |-> "None"],
     [mag_filter |-> "Nearest", compare |-> "Less"]}
UserPrims ==
    {Quad(FontAtlas), Quad(UserId(0)), Quad(UserId(1)),
     [clip_rect |-> FullClip(<<800, 600>>), primitive |-> CallbackPrimitive("cb")]}
UserFrames ==
    {[meshes |-> m, textures_delta |-> d, screen_size_logical |-> <<800, 600>>] :
        m \in SeqsUpTo(UserPrims, MaxUserPrims),
        d \in {[set |-> <<>>, free |-> <<>>], FontAtlasDelta}}

NextUser ==
    \/ \E data \in UserFrames : Upload(data, <<800, 600>>)
    \/ Draw
    \/ \E descriptor \in SamplerDescriptors : Register("view", descriptor)

SpecUser == Init /\ [][NextUser]_vars

(***************************************************************************)
(* SpecBackend: a backend constructed on a window of any of three sizes,   *)
(* with or without the offscreen render target, then suspended, resumed    *)
(* and driven through frames while the window is resized, destroyed and    *)
(* created.  Surface acquisition succeeds, fails once, or fails twice.     *)
(***************************************************************************)
FramebufferSizes == {<<800, 600>>, <<1000, 600>>, <<1000, 1000>>}
NoWindow == [exists |-> FALSE, size |-> <<0, 0>>, supported_formats |-> <<>>]
Windows ==
    {[exists |-> TRUE, size |-> size, supported_formats |-> <<"Bgra8UnormSrgb">>] :
        size \in FramebufferSizes}

InitBackend ==
    /\ InitPainter
    /\ window \in Windows
    /\ \E use_offscreen_render_target \in BOOLEAN :
           backend = new_async(window, DefaultConfig, use_offscreen_render_target)
    /\ backend_calls = <<>>
    /\ shared = Unshared

NextBackend ==
    \/ \E w \in Windows \cup {NoWindow} : WindowEvent(w)
    \/ Suspend
    \/ Resume
    \/ \E framebuffer_size_update, first_ok, retry_ok \in BOOLEAN :
           PrepareFrame(framebuffer_size_update, first_ok, retry_ok)
    \/ Present

SpecBackend == InitBackend /\ [][NextBackend]_vars

(***************************************************************************)
(* SpecRect: createRenderTargetRectFromScreenSize on its own, called with  *)
(* sides from one pixel to beyond any display.                             *)
(***************************************************************************)
RectSides ==
    {1, 2, 3, 99, 100, 101, 600, 800, 1000, 1080, 1366, 1920, 3840, 8192, 16384, 140943}

NextRect == \E screen_width, screen_height \in RectSides : CreateRect(screen_width, screen_height)

SpecRect == Init /\ [][NextRect]_vars

(***************************************************************************)
(* SpecMouse: SpecBackend with cursor positions mapped between the calls.  *)
(* Cursor coordinates are whole pixels, half pixels and 1/256 pixels.      *)
(***************************************************************************)
CursorCoords == {<<0, 0>>, <<400, 0>>, <<1281, 1>>, <<17921, 8>>}

NextMouse ==
    \/ NextBackend
    \/ \E x, y \in CursorCoords : MousePos(x, y)

SpecMouse == InitBackend /\ [][NextMouse]_vars

(***************************************************************************)
(* SpecRender: SpecBackend with frames rendered: an empty frame or one     *)
(* quad with the font atlas, at scale 1.                                   *)
(***************************************************************************)
RenderFrames(size) ==
    {[meshes |-> m, textures_delta |-> FontAtlasDelta, screen_size_logical |-> size] :
        m \in {<<>>, <<[clip_rect |-> FullClip(size),
                       primitive |-> MeshPrimitive(4, 6, FontAtlas)]>>}}

NextRender ==
    \/ NextBackend
    \/ \E data \in RenderFrames(render_screen_size(backend)) : Render(data)

SpecRender == InitBackend /\ [][NextRender]_vars

(***************************************************************************)
(* SpecShared: SpecBackend with the lock of resize_render_target taken and *)
(* released in steps, and a second thread reading the offscreen target     *)
(* through the mutex.  The calls of the backend's thread wait while a      *)
(* resize is in its critical section; a call that replaces the target      *)
(* goes through ResizeLock, ResizeWrite and ResizeUnlock.                  *)
(***************************************************************************)
ResizingCalls ==
    {resume(Run(backend, [op |-> "resume"]), window)} \cup
    {prepare_frame(Run(backend, [op |-> "prepare_frame", framebuffer_size_update |-> TRUE]),
                   TRUE, window, first_ok, retry_ok) : first_ok, retry_ok \in BOOLEAN}

NextShared ==
    \/ /\ IsNone(shared.resizing)
       /\ NextBackend
       /\ (backend_calls' # backend_calls => ~replaces_target([calls |-> backend_calls']))
    \/ \E run \in ResizingCalls : ResizeLock(run)
    \/ ResizeWrite
    \/ ResizeUnlock
    \/ ReaderLock
    \/ ReaderRead
    \/ ReaderUnlock

SpecShared == InitBackend /\ [][NextShared]_vars

(***************************************************************************)
(* SpecHooks: frames of a quad and of two callbacks whose prepare hooks    *)
(* each leave their own entry in custom_data; frames of callbacks only and *)
(* empty frames carry no geometry.                                         *)
(***************************************************************************)
HookPrims ==
    {[clip_rect |-> FullClip(<<800, 600>>), primitive |-> p] :
        p \in {MeshPrimitive(4, 6, FontAtlas), CallbackPrimitive("cb"),
               CallbackPrimitive("cb2")}}
HookFrames ==
    {[meshes |-> m, textures_delta |-> FontAtlasDelta, screen_size_logical |-> <<800, 600>>] :
        m \in SeqsUpTo(HookPrims, MaxPrims)}

NextHooks ==
    \/ \E data \in HookFrames : Upload(data, <<800, 600>>)
    \/ Draw

SpecHooks == Init /\ [][NextHooks]_vars

(***************************************************************************)
(* SpecPresence: frames whose quads name Managed(0), Managed(1) or         *)
(* User(0), with full creations and frees of the two managed textures and  *)
(* registrations of user textures between the frames.                      *)
(***************************************************************************)
PresenceDeltas ==
    {[set |-> s, free |-> f] :
        s \in SeqsUpTo({ManagedId(k) : k \in ManagedKeys} \X
                       {[pos |-> NonePos, image |-> TexImage, magnification |-> "Linear"]},
                       MaxImageDeltas),
        f \in {<<>>} \cup {<<ManagedId(k)>> : k \in ManagedKeys}}
PresenceMeshes ==
    {<<>>, <<Quad(ManagedId(0))>>, <<Quad(ManagedId(1))>>, <<Quad(UserId(0))>>,
     <<Quad(ManagedId(1)), Quad(UserId(0))>>}
PresenceFrames ==
    {[meshes |-> m, textures_delta |-> d, screen_size_logical |-> <<800, 600>>] :
        m \in PresenceMeshes, d \in PresenceDeltas}

NextPresence ==
    \/ \E data \in PresenceFrames : Upload(data, <<800, 600>>)
    \/ Draw
    \/ Register("view", [mag_filter |-> "Linear", compare |-> "None"])

SpecPresence == Init /\ [][NextPresence]_vars

(***************************************************************************)
(* SpecFormats: SpecBackend on windows whose surface supports one or the   *)
(* other sRGB format, so that the format chosen at resume changes from one *)
(* suspend/resume cycle to the next.                                       *)
(***************************************************************************)
FormatWindows ==
    {[exists |-> TRUE, size |-> size, supported_formats |-> <<format>>] :
        size \in FramebufferSizes, format \in {"Bgra8UnormSrgb", "Rgba8UnormSrgb"}}

NextFormats ==
    \/ \E w \in FormatWindows : WindowEvent(w)
    \/ Suspend
    \/ Resume
    \/ \E framebuffer_size_update, first_ok, retry_ok \in BOOLEAN :
           PrepareFrame(framebuffer_size_update, first_ok, retry_ok)
    \/ Present

SpecFormats == InitBackend /\ [][NextFormats]_vars

(***************************************************************************)
(* SpecIndices: frames of meshes with vertices and indices, with vertices  *)
(* and no indices, and with neither.                                       *)
(***************************************************************************)
IndexPrims ==
    {[clip_rect |-> FullClip(<<800, 600>>), primitive |-> p] :
        p \in {MeshPrimitive(4, 6, FontAtlas), MeshPrimitive(3, 0, FontAtlas),
               MeshPrimitive(1, 0, FontAtlas), MeshPrimitive(0, 0, FontAtlas)}}
IndexFrames ==
    {[meshes |-> m, textures_delta |-> FontAtlasDelta, screen_size_logical |-> <<800, 600>>] :
        m \in SeqsUpTo(IndexPrims, MaxPrims)}

NextIndices ==
    \/ \E data \in IndexFrames : Upload(data, <<800, 600>>)
    \/ Draw

SpecIndices == Init /\ [][NextIndices]_vars

(***************************************************************************)
(* SpecUserDeltas: registrations of user textures between frames whose     *)
(* texture deltas name User(0) and Managed(0), in the set and in the free  *)
(* list.                                                                   *)
(***************************************************************************)
UserDeltas ==
    {[set |-> s, free |-> f] :
        s \in SeqsUpTo({UserId(0), ManagedId(0)} \X
                       {[pos |-> NonePos, image |-> TexImage, magnification |-> "Linear"]},
                       MaxImageDeltas),
        f \in {<<>>, <<UserId(0)>>, <<ManagedId(0)>>}}
UserDeltaFrames ==
    {[meshes |-> m, textures_delta |-> d, screen_size_logical |-> <<800, 600>>] :
        m \in {<<>>, <<Quad(UserId(0))>>}, d \in UserDeltas}

NextUserDeltas ==
    \/ \E data \in UserDeltaFrames : Upload(data, <<800, 600>>)
    \/ Draw
    \/ \E descriptor \in SamplerDescriptors : Register("view", descriptor)

SpecUserDeltas == Init /\ [][NextUserDeltas]_vars

(***************************************************************************)
(* SpecLoop: GlfwBackend::run_event_loop driving the WgpuBackend.  Between *)
(* the loop's statements the window system queues events for the window;   *)
(* a FramebufferSize event carries the window's new framebuffer size and a *)
(* Close event raises should_close.  A panic of the backend unwinds the    *)
(* loop.                                                                   *)
(***************************************************************************)
\* the events of the channel: a resize to the initial or to a wider size, a cursor move, a close
GlfwEvents ==
    {FramebufferSize(<<800, 600>>), FramebufferSize(<<1000, 600>>), CursorPos,
     [kind |-> "Close", size |-> <<0, 0>>]}

IsResize(event) == event.kind = "FramebufferSize"
Resized(events_seq) == \E i \in 1..Len(events_seq) : IsResize(events_seq[i])

GlfwOnly ==
    UNCHANGED <<pc, panic, vb_len, ib_len, managed_textures, user_textures,
                next_user_texture_id, delete_textures, draw_calls, events, removed,
                rpass, frame, max_vb_req, max_ib_req, ref_cache, pending_free,
                registered, backend, backend_calls, shared, custom_data>>

\* the window system queues an event for the window
GlfwEvent(event) ==
    /\ pc # "panicked"
    /\ glfw.at # "exited"
    /\ Len(glfw.events_receiver) < MaxPendingEvents
    /\ glfw' = [glfw EXCEPT !.events_receiver = Append(@, event),
                            !.should_close = @ \/ event.kind = "Close"]
    /\ window' = IF IsResize(event) THEN [window EXCEPT !.size = event.size] ELSE window
    /\ GlfwOnly

\* while !self.window.should_close() { self.tick(); ...
LoopTick ==
    /\ pc # "panicked"
    /\ glfw.at = "tick"
    /\ ~glfw.should_close
    /\ glfw' = [tick(glfw) EXCEPT !.at = "prepare_frame"]
    /\ UNCHANGED window
    /\ GlfwOnly

LoopExit ==
    /\ pc # "panicked"
    /\ glfw.at = "tick"
    /\ glfw.should_close
    /\ glfw' = [glfw EXCEPT !.at = "exited"]
    /\ UNCHANGED window
    /\ GlfwOnly

\* get_live_physical_size_framebuffer, called by prepare_frame, stores the size it read
live_size_stored(self, run, w) ==
    IF run.calls[1].framebuffer_size_update
          \/ \E i \in 1..Len(run.calls) : run.calls[i].op = "configure"
    THEN [self EXCEPT !.size_physical_pixels = w.size]
    ELSE self

\* gfx_backend.prepare_frame(self.resized_event_pending, &mut self); self.resized_event_pending = false;
LoopPrepareFrame(first_ok, retry_ok) ==
    LET run == prepare_frame(Run(backend, [op |-> "prepare_frame",
                                           framebuffer_size_update |-> glfw.resized_event_pending]),
                             glfw.resized_event_pending, window, first_ok, retry_ok)
    IN  /\ pc # "panicked"
        /\ glfw.at = "prepare_frame"
        /\ gfx_call(run)
        /\ glfw' = IF Aborted(run) THEN live_size_stored(glfw, run, window)
                   ELSE [resize_flag_cleared(live_size_stored(glfw, run, window))
                            EXCEPT !.at = "render", !.frames = Min(@ + 1, 2)]

\* user_app.run, tessellate, gfx_backend.render(egui_gfx_data)
LoopRender(data) ==
    /\ glfw.at = "render"
    /\ gfx_render(data)
    /\ glfw' = IF pc' = "panicked" THEN glfw ELSE [glfw EXCEPT !.at = "present"]

\* gfx_backend.present(&mut self), and back to the loop's condition
LoopPresent ==
    LET run == present(Run(backend, [op |-> "present"]))
    IN  /\ pc # "panicked"
        /\ glfw.at = "present"
        /\ gfx_call(run)
        /\ glfw' = IF Aborted(run) THEN glfw ELSE [glfw EXCEPT !.at = "tick"]

LoopPrepareFrameStep == \E first_ok, retry_ok \in BOOLEAN : LoopPrepareFrame(first_ok, retry_ok)

NextLoop ==
    \/ \E event \in GlfwEvents : GlfwEvent(event)
    \/ LoopTick
    \/ LoopExit
    \/ LoopPrepareFrameStep
    \/ \E data \in RenderFrames(glfw.size_physical_pixels) : LoopRender(data)
    \/ LoopPresent

SpecLoop == Init /\ [][NextLoop]_vars

(***************************************************************************)
(* Steps of a behaviour.                                                   *)
(***************************************************************************)
\* an upload_egui_data call, returned or aborted
UploadStep == pc \in {"ready", "drawn"} /\ pc' \in {"uploaded", "panicked"}
\* an upload_egui_data call that returned
UploadReturned == pc \in {"ready", "drawn"} /\ pc' = "uploaded"
\* the managed keys a free list names
FreedKeys(free) == ManagedKeysOf(Range(free))
OpsOf(log) == {log[i].op : i \in 1..Len(log)}

(***************************************************************************)
(* C1 as stated: a managed texture that is in the cache and is named in    *)
(* frame N's free list is still in the cache after frame N's               *)
(* upload_egui_data.  (Fails: a texture also named in frame N-1's free     *)
(* list is removed by frame N's texture step.)                             *)
(***************************************************************************)
C1_NamedNowStillCached ==
    [][UploadReturned =>
         \A k \in DOMAIN managed_textures :
            k \in FreedKeys(frame'.free) => k \in DOMAIN managed_textures']_vars

(***************************************************************************)
(* C1, amended: deferred deletion is never same-frame.  A managed texture  *)
(* that is in the cache, is named in frame N's free list and is not        *)
(* pending from frame N-1's free list (or is fully created again by frame  *)
(* N) is still in the cache after frame N's upload_egui_data, returned or  *)
(* aborted, and frame N's draw leaves the cache as it is.                  *)
(***************************************************************************)
C1_DeferredDeletionNotSameFrame ==
    [][/\ UploadStep =>
            \A k \in DOMAIN managed_textures :
               (/\ k \in FreedKeys(frame'.free)
                /\ \/ k \notin FreedKeys(frame.free)
                   \/ (pc' = "uploaded" /\ k \in frame'.creates))
               => k \in DOMAIN managed_textures'
       /\ pc = "uploaded" => managed_textures' = managed_textures]_vars

\* frame N named texture 0 in its free list, did not create it, and drew with it
C1_Witness ==
    /\ pc = "drawn"
    /\ 0 \in FreedKeys(frame.free)
    /\ 0 \notin frame.creates
    /\ 0 \in DOMAIN managed_textures
    /\ "draw_indexed" \in OpsOf(rpass)

(***************************************************************************)
(* C2: bounded removal.  A managed id named in frame N's free list and not *)
(* fully created by frame N+1's delta set is absent from the cache once    *)
(* frame N+1's upload_egui_data has returned, and nothing but an           *)
(* upload_egui_data call changes the cache, so it is absent at the start   *)
(* of frame N+2.                                                           *)
(***************************************************************************)
C2_BoundedRemoval ==
    [][/\ UploadReturned =>
            \A k \in FreedKeys(frame.free) \ frame'.creates :
               k \notin DOMAIN managed_textures'
       /\ ~UploadStep => managed_textures' = managed_textures]_vars

\* frame N+1 declared nothing, took a texture out of the cache and was drawn
C2_Witness ==
    /\ pc = "drawn"
    /\ frame.free = <<>>
    /\ frame.creates = {}
    /\ removed # {}
    /\ removed \cap DOMAIN managed_textures = {}

(***************************************************************************)
(* C3: the cache refines the explicit pending_free design.  After every    *)
(* returned call the cached keys are those of the reference cache; for a   *)
(* frame that both frees and fully creates a managed id, the id is present *)
(* after that frame and, after the following frame, present exactly if     *)
(* that frame creates it again.                                            *)
(***************************************************************************)
C3_RefinesPendingFreeQueue ==
    /\ [](pc # "panicked" =>
            /\ DOMAIN managed_textures = ref_cache
            /\ \A k \in frame.creates \cap FreedKeys(frame.free) :
                  k \in DOMAIN managed_textures)
    /\ [][UploadReturned =>
            \A k \in frame.creates \cap FreedKeys(frame.free) :
               k \in DOMAIN managed_textures' <=> k \in frame'.creates]_vars

\* after a frame that frees and fully creates texture 1: texture 1 is cached
C3_Witness ==
    /\ pc = "uploaded"
    /\ 1 \in frame.creates \cap FreedKeys(frame.free)
    /\ 1 \in DOMAIN managed_textures
    /\ 1 \in ref_cache

(***************************************************************************)
(* C4: within one upload_egui_data call every removal of a queued texture  *)
(* comes before every creation, and both come before any buffer creation,  *)
(* buffer write, prepare call or draw-unit emission; so a managed id freed *)
(* in frame N-1 and fully created in frame N is in the cache after frame N.*)
(***************************************************************************)
PhaseOf(e) ==
    IF e.op = "remove_texture" THEN 1 ELSE IF e.op = "create_texture" THEN 2 ELSE 3

C4_RemovalsThenCreationsThenGeometry ==
    /\ [](\A i, j \in 1..Len(events) : i < j => PhaseOf(events[i]) <= PhaseOf(events[j]))
    /\ [][UploadReturned =>
            \A k \in FreedKeys(frame.free) \cap frame'.creates :
               k \in DOMAIN managed_textures']_vars

\* a call that removed texture 1, created it again and then wrote geometry
C4_Witness ==
    /\ pc = "uploaded"
    /\ 1 \in removed \cap frame.creates
    /\ 1 \in DOMAIN managed_textures
    /\ {"remove_texture", "create_texture", "write_buffer_with", "push"} \subseteq OpsOf(events)


(***************************************************************************)
(* What a frame asks of the geometry step.                                 *)
(***************************************************************************)
\* total vertex count of the frame's mesh primitives
TotalVertices(meshes) == total_lengths(meshes)[1]
\* total index count of the frame's mesh primitives
TotalIndices(meshes) == total_lengths(meshes)[2]
\* the buffer was replaced by the call whose log this is
Replaced(buffer, log) ==
    \E i \in 1..Len(log) : log[i].op = "create_buffer" /\ log[i].buffer = buffer
\* the calls that touch a geometry buffer or the draw list
GeometryOps == {"create_buffer", "write_buffer_with", "copy_from_slice", "prepare", "push"}
\* an upload has run and the painter is alive
Uploaded == pc \in {"uploaded", "drawn"}
\* the primitive passes the clip test of the frame
Passes(cp) ==
    ~skipped(scissor_rect(cp.clip_rect, frame.screen_size_physical, frame.screen_size_logical))
\* the frame's primitives that pass the clip test, in input order
Passing == SelectSeq(frame.meshes, Passes)
\* what a primitive is known by in a draw unit
SigOfPrimitive(cp) ==
    IF cp.primitive.kind = "Mesh"
    THEN <<"Mesh",
           scissor_rect(cp.clip_rect, frame.screen_size_physical, frame.screen_size_logical),
           cp.primitive.texture_id, cp.primitive.indices>>
    ELSE <<"Callback",
           scissor_rect(cp.clip_rect, frame.screen_size_physical, frame.screen_size_logical),
           cp.primitive.callback>>
SigOfUnit(unit) ==
    IF unit.kind = "Mesh"
    THEN <<"Mesh", unit.clip_rect, unit.texture_id, unit.index_end - unit.index_start>>
    ELSE <<"Callback", unit.clip_rect, unit.paint_callback>>
\* the draw list is the given primitives, one unit each, in order
ListsExactly(prims) ==
    /\ Len(draw_calls) = Len(prims)
    /\ \A i \in 1..Len(prims) : SigOfUnit(draw_calls[i]) = SigOfPrimitive(prims[i])
IsDrawOp(cmd) == cmd.op \in {"draw_indexed", "paint"}
IsScissorOp(cmd) == cmd.op = "set_scissor_rect"
\* the render pass holds, in list order, one scissor per unit, one indexed
\* draw per Mesh unit and one paint per Callback unit
DrawsInListOrder ==
    LET draws == SelectSeq(rpass, IsDrawOp)
        scissors == SelectSeq(rpass, IsScissorOp)
    IN  /\ Len(draws) = Len(draw_calls)
        /\ Len(scissors) = Len(draw_calls)
        /\ \A i \in 1..Len(draw_calls) :
              /\ scissors[i].rect = draw_calls[i].clip_rect
              /\ IF draw_calls[i].kind = "Mesh"
                 THEN /\ draws[i].op = "draw_indexed"
                      /\ draws[i].index_start = draw_calls[i].index_start
                      /\ draws[i].index_end = draw_calls[i].index_end
                 ELSE /\ draws[i].op = "paint"
                      /\ draws[i].callback = draw_calls[i].paint_callback

(***************************************************************************)
(* C5: for every frame whose mesh primitives have a total vertex count of  *)
(* 0, upload_egui_data leaves an empty draw list (the units of the frame   *)
(* before do not survive), writes no vertex or index buffer and replaces   *)
(* no buffer.                                                              *)
(***************************************************************************)
C5_ZeroVerticesShortCircuit ==
    [][(UploadStep /\ TotalVertices(frame'.meshes) = 0) =>
          /\ draw_calls' = <<>>
          /\ OpsOf(events') \cap GeometryOps = {}
          /\ vb_len' = vb_len
          /\ ib_len' = ib_len]_vars

\* after a frame with geometry, a frame of one callback that passes the clip test
C5_Witness ==
    /\ pc = "uploaded"
    /\ vb_len > 0
    /\ Len(frame.meshes) = 1
    /\ frame.meshes[1].primitive.kind = "Callback"
    /\ Passes(frame.meshes[1])
    /\ draw_calls = <<>>

(***************************************************************************)
(* C6: for every logical clip rectangle, scale and physical screen size,   *)
(* the scissor [x, y, w, h] of every emitted draw unit, and of every       *)
(* set_scissor_rect of the draw, has x + w <= physical width, y + h <=     *)
(* physical height, w >= 1 and h >= 1: no unit of zero width or height is  *)
(* emitted.                                                                *)
(***************************************************************************)
ScissorWithin(r, screen) ==
    /\ r[1] + r[3] <= screen[1]
    /\ r[2] + r[4] <= screen[2]
    /\ r[3] >= 1
    /\ r[4] >= 1

C6_ScissorWithinScreen ==
    /\ \A i \in 1..Len(draw_calls) :
          ScissorWithin(draw_calls[i].clip_rect, frame.screen_size_physical)
    /\ \A i \in 1..Len(rpass) :
          IsScissorOp(rpass[i]) => ScissorWithin(rpass[i].rect, frame.screen_size_physical)

\* at scale 2, a clip rectangle larger than the screen is emitted as the screen
C6_Witness ==
    /\ pc = "drawn"
    /\ frame.screen_size_physical = <<4, 2>>
    /\ Len(frame.meshes) = 1
    /\ frame.meshes[1].clip_rect = Rect(0 - 1, 0 - 1, 3, 2)
    /\ Len(draw_calls) = 1
    /\ draw_calls[1].clip_rect = <<0, 0, 4, 2>>

(***************************************************************************)
(* C7: across any sequence of frames vb_len and ib_len never decrease, and *)
(* a frame replaces the vertex buffer if and only if its total vertex      *)
(* count exceeds vb_len, and the index buffer if and only if its total     *)
(* index count exceeds ib_len, each decided on its own.                    *)
(***************************************************************************)
C7_MonotoneGrowthIffExceeds ==
    [][/\ vb_len' >= vb_len
       /\ ib_len' >= ib_len
       /\ UploadStep =>
            /\ Replaced("vb", events') <=> TotalVertices(frame'.meshes) > vb_len
            /\ Replaced("ib", events') <=> TotalIndices(frame'.meshes) > ib_len
            /\ ~Replaced("vb", events') => vb_len' = vb_len
            /\ ~Replaced("ib", events') => ib_len' = ib_len
       /\ ~UploadStep => (vb_len' = vb_len /\ ib_len' = ib_len)]_vars

\* a frame that replaced the vertex buffer and kept the index buffer it had
C7_Witness ==
    /\ pc = "uploaded"
    /\ Replaced("vb", events)
    /\ ~Replaced("ib", events)
    /\ ib_len > 0
    /\ TotalIndices(frame.meshes) = ib_len

(***************************************************************************)
(* C8: a buffer that grows gets exactly the frame's required element count *)
(* (total vertices, total indices), so after any frame each capacity is    *)
(* the largest requirement of the frames that reached the growth step.     *)
(***************************************************************************)
C8_ExactGrowth ==
    /\ vb_len = max_vb_req
    /\ ib_len = max_ib_req
    /\ \A i \in 1..Len(events) :
          events[i].op = "create_buffer" =>
             IF events[i].buffer = "vb"
             THEN /\ events[i].size = TotalVertices(frame.meshes) * VertexSize
                  /\ vb_len = TotalVertices(frame.meshes)
             ELSE /\ events[i].size = TotalIndices(frame.meshes) * IndexSize
                  /\ ib_len = TotalIndices(frame.meshes)

\* a frame of a 4-vertex and a 3-vertex mesh grew the buffers to exactly 7 and 9
C8_Witness ==
    /\ pc = "uploaded"
    /\ Replaced("vb", events)
    /\ Replaced("ib", events)
    /\ vb_len = 7
    /\ ib_len = 9
    /\ Len(frame.meshes) = 2

(***************************************************************************)
(* C9 as stated: the draw list upload_egui_data produces is exactly the    *)
(* frame's primitives that pass the clip test, in input order, and the     *)
(* draw processes the list in order with one indexed draw per Mesh unit.   *)
(* (Fails: a frame without vertices whose callback passes the clip test    *)
(* gets an empty list.)                                                    *)
(***************************************************************************)
C9_ListIsPassingSubsequence ==
    /\ Uploaded => ListsExactly(Passing)
    /\ pc = "drawn" => DrawsInListOrder

(***************************************************************************)
(* C9, amended: for a frame whose mesh primitives have at least one vertex *)
(* the draw list is exactly the frame's primitives that pass the clip      *)
(* test, in input order, one unit each; for a frame without vertices it is *)
(* empty.  The draw processes the list in order: one scissor per unit, one *)
(* indexed draw per Mesh unit, one paint per Callback unit.                *)
(***************************************************************************)
C9_ListIsPassingSubsequenceOfGeometry ==
    /\ Uploaded =>
          IF TotalVertices(frame.meshes) > 0
          THEN ListsExactly(Passing)
          ELSE draw_calls = <<>>
    /\ pc = "drawn" => DrawsInListOrder

\* a callback then a mesh, both listed and drawn in that order
C9_Witness ==
    /\ pc = "drawn"
    /\ Len(frame.meshes) = 2
    /\ Len(draw_calls) = 2
    /\ draw_calls[1].kind = "Callback"
    /\ draw_calls[2].kind = "Mesh"
    /\ draw_calls[2].index_end = 3

(***************************************************************************)
(* C10: for every emitted Mesh unit, base_vertex is the sum of the vertex  *)
(* counts of the Mesh units emitted before it in the frame, index_start    *)
(* the sum of their index counts and index_end - index_start the mesh's    *)
(* index count; skipped meshes move no cursor.  One 4-vertex, 6-index mesh *)
(* clipped to the whole 800x600 screen at scale 1 yields one unit with     *)
(* clip_rect [0, 0, 800, 600], base_vertex 0 and indices [0, 6).           *)
(***************************************************************************)
C10_CursorsAreRunningSums ==
    Uploaded =>
      /\ \A i \in 1..Len(draw_calls) :
            draw_calls[i].kind = "Mesh" =>
               /\ i <= Len(Passing)
               /\ Passing[i].primitive.kind = "Mesh"
               /\ draw_calls[i].base_vertex = TotalVertices(SubSeq(Passing, 1, i - 1))
               /\ draw_calls[i].index_start = TotalIndices(SubSeq(Passing, 1, i - 1))
               /\ draw_calls[i].index_end - draw_calls[i].index_start
                     = Passing[i].primitive.indices
      /\ (/\ frame.meshes = <<Quad(FontAtlas)>>
          /\ frame.screen_size_physical = <<800, 600>>
          /\ frame.screen_size_logical = <<800, 600>>)
         => draw_calls = <<[kind |-> "Mesh", clip_rect |-> <<0, 0, 800, 600>>,
                            texture_id |-> FontAtlas, base_vertex |-> 0,
                            index_start |-> 0, index_end |-> 6]>>

\* a mesh after a 4-vertex, 6-index mesh starts at vertex 4 and index 6
C10_Witness ==
    /\ pc = "uploaded"
    /\ Len(draw_calls) = 2
    /\ draw_calls[1].kind = "Mesh"
    /\ draw_calls[2].kind = "Mesh"
    /\ draw_calls[2].base_vertex = 4
    /\ draw_calls[2].index_start = 6
    /\ draw_calls[2].index_end = 9


(***************************************************************************)
(* The callbacks a frame carries, prepares and paints.                     *)
(***************************************************************************)
IsCallbackPrimitive(cp) == cp.primitive.kind = "Callback"
IsPrepareCall(e) == e.op = "prepare"
IsPaintCall(cmd) == cmd.op = "paint"
\* the callbacks of the callback primitives among prims, in order
CallbacksOf(prims) ==
    LET s == SelectSeq(prims, IsCallbackPrimitive)
    IN  [i \in 1..Len(s) |-> s[i].primitive.callback]
\* the callbacks whose prepare the upload called, in call order
Prepared ==
    LET s == SelectSeq(events, IsPrepareCall)
    IN  [i \in 1..Len(s) |-> s[i].callback]
\* the callbacks whose paint the draw called, in call order
Painted ==
    LET s == SelectSeq(rpass, IsPaintCall)
    IN  [i \in 1..Len(s) |-> s[i].callback]

(***************************************************************************)
(* C11 as stated: in every frame each callback primitive of the input gets *)
(* exactly one prepare call during upload_egui_data and exactly one paint  *)
(* call during the frame's draw.  (Fails: a callback whose clip rectangle  *)
(* is skipped, and every callback of a frame without vertices, gets        *)
(* neither.)                                                               *)
(***************************************************************************)
C11_EveryCallbackPreparedAndPainted ==
    /\ Uploaded => Prepared = CallbacksOf(frame.meshes)
    /\ pc = "drawn" => Painted = CallbacksOf(frame.meshes)

(***************************************************************************)
(* C11, amended: in a frame whose mesh primitives have at least one vertex *)
(* each callback primitive that passes the clip test gets exactly one      *)
(* prepare call during upload_egui_data and exactly one paint call during  *)
(* the frame's draw, in input order; a callback whose clip rectangle is    *)
(* skipped, and every callback of a frame without vertices, gets neither.  *)
(***************************************************************************)
C11_PassingCallbacksPreparedAndPainted ==
    /\ Uploaded =>
          Prepared = IF TotalVertices(frame.meshes) > 0
                     THEN CallbacksOf(Passing) ELSE <<>>
    /\ pc = "drawn" =>
          Painted = IF TotalVertices(frame.meshes) > 0
                    THEN CallbacksOf(Passing) ELSE <<>>

\* a mesh and a callback, the callback prepared once and painted once
C11_Witness ==
    /\ pc = "drawn"
    /\ Len(frame.meshes) = 2
    /\ frame.meshes[1].primitive.kind = "Mesh"
    /\ frame.meshes[2].primitive.kind = "Callback"
    /\ Prepared = <<"cb">>
    /\ Painted = <<"cb">>


(***************************************************************************)
(* The corners of a primitive's clip rectangle in physical pixels: scaled  *)
(* by physical width / logical width, clamped to the screen (the max       *)
(* corner to [min, screen]) and rounded.                                   *)
(***************************************************************************)
RoundedCorners(cp) ==
    LET den == frame.screen_size_logical[1]
        pw == frame.screen_size_physical[1]
        ph == frame.screen_size_physical[2]
        min_x == clamp(cp.clip_rect.min[1] * pw, 0, pw * den)
        min_y == clamp(cp.clip_rect.min[2] * pw, 0, ph * den)
        max_x == clamp(cp.clip_rect.max[1] * pw, min_x, pw * den)
        max_y == clamp(cp.clip_rect.max[2] * pw, min_y, ph * den)
    IN  [min |-> <<round(min_x, den), round(min_y, den)>>,
         max |-> <<round(max_x, den), round(max_y, den)>>]
\* the rounded corners enclose at least one pixel
HasAreaAfterRounding(cp) ==
    /\ RoundedCorners(cp).max[1] > RoundedCorners(cp).min[1]
    /\ RoundedCorners(cp).max[2] > RoundedCorners(cp).min[2]
\* the rounded min corner lies on the right or the bottom edge of the screen
OnFarEdge(cp) ==
    \/ RoundedCorners(cp).min[1] = frame.screen_size_physical[1]
    \/ RoundedCorners(cp).min[2] = frame.screen_size_physical[2]
NotOnFarEdge(cp) == ~OnFarEdge(cp)
IsMeshPrimitive(cp) == cp.primitive.kind = "Mesh"
IsMeshUnit(unit) == unit.kind = "Mesh"
IsVertexCopy(e) == e.op = "copy_from_slice" /\ e.buffer = "vb"
IsIndexCopy(e) == e.op = "copy_from_slice" /\ e.buffer = "ib"
\* the meshes whose vertices the upload copied into the vertex buffer
VertexCopies == Len(SelectSeq(events, IsVertexCopy))
IndexCopies == Len(SelectSeq(events, IsIndexCopy))

UploadsImages(data) ==
    /\ data.meshes = frame'.meshes
    /\ data.textures_delta.free = frame'.free
    /\ FullCreations(data.textures_delta.set) = frame'.creates
    /\ pc' = "uploaded"
    /\ Upload(data, <<800, 600>>)
\* the step uploads data, returned or aborted
UploadsImagesOrAborts(data) ==
    /\ data.meshes = frame'.meshes
    /\ data.textures_delta.free = frame'.free
    /\ FullCreations(data.textures_delta.set) = frame'.creates
    /\ Upload(data, <<800, 600>>)
\* entry i is a partial update of a managed texture
IsPartialUpdate(set, i) == set[i][1].kind = "Managed" /\ ~IsFull(set[i][2])
\* entry i is a full creation of a managed texture
IsFullCreation(set, i) == set[i][1].kind = "Managed" /\ IsFull(set[i][2])
\* the key of entry i has an entry when set_textures reaches entry i
CachedAt(set, i) ==
    \/ \E j \in 1..(i - 1) : set[j][1] = set[i][1] /\ IsFullCreation(set, j)
    \/ /\ set[i][1].key \in DOMAIN managed_textures
       /\ set[i][1].key \notin FreedKeys(delete_textures)
\* no later entry names the key of entry i
LastOfKey(set, i) == \A j \in (i + 1)..Len(set) : set[j][1] # set[i][1]
\* the pixels of a texture after image is written into it at pos
PixelsAfter(texture, pos, image) ==
    IF pos = <<0, 0>> /\ image.width = texture.width /\ image.height = texture.height
    THEN image.pixels
    ELSE texture.pixels \o "+" \o image.pixels

(***************************************************************************)
(* C13: a delta with a position for a managed id that has a cache entry    *)
(* writes the delta's pixels into the sub-rectangle of the existing        *)
(* texture and leaves the entry otherwise as it was.  (Fails: the branch   *)
(* of set_textures for a delta with a position is empty, nothing is        *)
(* written.)                                                               *)
(***************************************************************************)
C13_PartialUpdateWritesPixels ==
    [][\A data \in ImgFrames : \A i \in 1..Len(data.textures_delta.set) :
          LET set == data.textures_delta.set
              key == set[i][1].key
          IN  (/\ UploadsImages(data)
               /\ IsPartialUpdate(set, i)
               /\ LastOfKey(set, i)
               /\ key \notin FullCreations(set)
               /\ CachedAt(set, i))
              => managed_textures'[key] =
                    [managed_textures[key] EXCEPT
                        !.texture.pixels = PixelsAfter(managed_textures[key].texture,
                                                       set[i][2].pos, set[i][2].image)]]_vars

(***************************************************************************)
(* C14: a delta with a position for a managed key that has no cache entry  *)
(* is fatal, the frame aborts.  (Fails: the empty branch ignores the       *)
(* delta and the frame goes on.)                                           *)
(***************************************************************************)
C14_PartialUpdateOfMissingKeyAborts ==
    [][\A data \in ImgFrames : \A i \in 1..Len(data.textures_delta.set) :
          (/\ UploadsImagesOrAborts(data)
           /\ IsPartialUpdate(data.textures_delta.set, i)
           /\ ~CachedAt(data.textures_delta.set, i))
          => pc' = "panicked"]_vars

(***************************************************************************)
(* C15: a full creation, a delta without position, for a managed id        *)
(* replaces the entry the id has: after the texture step the id resolves   *)
(* to the texture of the newest such delta's image and to a bind-group on  *)
(* the view of that texture.                                               *)
(***************************************************************************)
C15_FullCreationReplacesEntry ==
    [][\A data \in ImgFrames : \A i \in 1..Len(data.textures_delta.set) :
          LET set == data.textures_delta.set
              key == set[i][1].key
          IN  (/\ UploadsImages(data)
               /\ IsFullCreation(set, i)
               /\ \A j \in (i + 1)..Len(set) :
                     ~(set[j][1] = set[i][1] /\ IsFullCreation(set, j)))
              => /\ key \in DOMAIN managed_textures'
                 /\ managed_textures'[key].texture = set[i][2].image
                 /\ managed_textures'[key].bindgroup.view = set[i][2].image]_vars

\* texture 0, in the cache since an earlier frame drew with it, is now the 2x1 image
C15_Witness ==
    /\ pc = "uploaded"
    /\ frame.meshes = <<>>
    /\ vb_len > 0
    /\ 0 \in frame.creates
    /\ managed_textures[0].texture = ImageB


(***************************************************************************)
(* The draw units whose texture the tables do not hold.                    *)
(***************************************************************************)
MissingTexture(unit) ==
    /\ unit.kind = "Mesh"
    /\ unit.texture_id.key \notin
          DOMAIN (IF unit.texture_id.kind = "Managed" THEN managed_textures
                  ELSE user_textures)
\* the index of the first unit whose texture is missing, 0 when there is none
FirstMissing ==
    IF \E i \in 1..Len(draw_calls) : MissingTexture(draw_calls[i])
    THEN CHOOSE i \in 1..Len(draw_calls) :
            /\ MissingTexture(draw_calls[i])
            /\ \A j \in 1..(i - 1) : ~MissingTexture(draw_calls[j])
    ELSE 0

(***************************************************************************)
(* C16: executing a Mesh unit whose texture key, Managed or User, has no   *)
(* entry in its table is fatal: the draw aborts with the unit's scissor    *)
(* set and nothing drawn for it or for any later unit; the units before it *)
(* were drawn.  A draw list without such a unit is drawn to its end.       *)
(***************************************************************************)
C16_MissingTextureAbortsDraw ==
    [][pc = "uploaded" =>
          IF FirstMissing = 0
          THEN pc' = "drawn" /\ panic' = ""
          ELSE /\ pc' = "panicked"
               /\ panic' = IF draw_calls[FirstMissing].texture_id.kind = "Managed"
                           THEN "cannot find managed texture"
                           ELSE "cannot find user texture"
               /\ Len(SelectSeq(rpass', IsDrawOp)) = FirstMissing - 1
               /\ Len(SelectSeq(rpass', IsScissorOp)) = FirstMissing
               /\ rpass'[Len(rpass')].op = "set_vertex_buffer"]_vars

\* the second unit names a user texture nobody registered: one unit drawn, then the abort
C16_Witness ==
    /\ pc = "panicked"
    /\ panic = "cannot find user texture"
    /\ Len(draw_calls) = 2
    /\ FirstMissing = 2
    /\ Len(SelectSeq(rpass, IsDrawOp)) = 1

(***************************************************************************)
(* C17: each call of register_native_texture_with_sampler_options returns  *)
(* TextureId::User(n) with n = 0 for the first call and one more than the  *)
(* call before afterwards, never an id in use, and right after the call    *)
(* the user-texture table maps n to the bind-group the call created from   *)
(* its view and sampler descriptor; the other entries stay.                *)
(***************************************************************************)
RegisterStep == registered' # registered \/ user_textures' # user_textures
                   \/ next_user_texture_id' # next_user_texture_id

C17_RegisterReturnsFreshIncreasingId ==
    [][RegisterStep =>
          /\ registered' = UserId(next_user_texture_id)
          /\ registered'.key = IF registered = NoTextureId THEN 0 ELSE registered.key + 1
          /\ registered'.key \notin DOMAIN user_textures
          /\ next_user_texture_id' = next_user_texture_id + 1
          /\ DOMAIN user_textures' = DOMAIN user_textures \cup {registered'.key}
          /\ \A k \in DOMAIN user_textures : user_textures'[k] = user_textures[k]
          /\ \A descriptor \in SamplerDescriptors :
                Register("view", descriptor) =>
                   user_textures'[registered'.key].bindgroup =
                      [sampler |-> [mag_filter |-> descriptor.mag_filter, compare |-> "None"],
                       view |-> "view"]]_vars

\* the second registration returned User(1), bound to its own sampler
C17_Witness ==
    /\ registered = UserId(1)
    /\ next_user_texture_id = 2
    /\ user_textures[1].bindgroup.sampler.mag_filter = "Nearest"
    /\ user_textures[0].bindgroup.sampler.mag_filter = "Linear"

(***************************************************************************)
(* C18: for every screen size (w, h), createRenderTargetRectFromScreenSize *)
(* returns x = floor(7% of w), y = floor(2% of h), width = floor(49% of    *)
(* w), height = floor(93% of h) and records screen_width = w and           *)
(* screen_height = h; 1000x1000 gives x = 70, y = 20, width = 490, height  *)
(* = 930.                                                                  *)
(***************************************************************************)
\* floor of percent % of side, in exact integer arithmetic
FloorOfPercent(percent, side) == (percent * side) \div 100

IsRectCall(call) == call.op = "createRenderTargetRectFromScreenSize"

ExactRect(screen_width, screen_height) ==
    [x |-> FloorOfPercent(7, screen_width), y |-> FloorOfPercent(2, screen_height),
     width |-> FloorOfPercent(49, screen_width), height |-> FloorOfPercent(93, screen_height),
     screen_width |-> screen_width, screen_height |-> screen_height]

\* C18: every rectangle the function returned is the floor of the exact percentages
C18_RectIsFloorOfPercentages ==
    /\ createRenderTargetRectFromScreenSize(1000, 1000) =
           [x |-> 70, y |-> 20, width |-> 490, height |-> 930,
            screen_width |-> 1000, screen_height |-> 1000]
    /\ \A i \in 1..Len(backend_calls) :
           IsRectCall(backend_calls[i]) =>
               backend_calls[i].rect =
                   ExactRect(backend_calls[i].screen_width, backend_calls[i].screen_height)

(***************************************************************************)
(* C19: when a framebuffer resize is delivered (prepare_frame with         *)
(* framebuffer_size_update, or resume) to a new size and offscreen mode is *)
(* active, afterwards render_target_rect equals                            *)
(* createRenderTargetRectFromScreenSize(new width, new height) and the     *)
(* offscreen target under the mutex is a newly created one whose width and *)
(* height equal that rect's width and height.                              *)
(***************************************************************************)
\* a call that delivers the framebuffer size, and returns
DeliversSize ==
    /\ \/ Resume
       \/ \E first_ok, retry_ok \in BOOLEAN : PrepareFrame(TRUE, first_ok, retry_ok)
    /\ pc' # "panicked"

LastSurfaceSize(self) == <<self.last_surface_width, self.last_surface_height>>
SurfaceSize(self) == <<self.surface_config.width, self.surface_config.height>>
IsTargetCreation(call) == call.op = "create_offscreen_render_target"
IsResizeCall(call) == call.op = "resize_render_target"
TargetCreations(log) == SelectSeq(log, IsTargetCreation)

\* the size the call handed to resize_render_target
DeliveredSize(log) ==
    LET resize == SelectSeq(log, IsResizeCall)[1] IN <<resize.width, resize.height>>

\* C19: a delivered new size recomputes the rect and creates a target of the rect's size
C19_ResizeRecreatesTarget ==
    [][(/\ DeliversSize
        /\ backend.use_offscreen_render_target
        /\ DeliveredSize(backend_calls') # LastSurfaceSize(backend))
       => LET size == DeliveredSize(backend_calls')
              rect == createRenderTargetRectFromScreenSize(size[1], size[2])
          IN  /\ size = SurfaceSize(backend')
              /\ backend'.render_target_rect = Some(rect)
              /\ TargetCreations(backend_calls') =
                     <<[op |-> "create_offscreen_render_target",
                        width |-> rect.width, height |-> rect.height]>>
              /\ IsSome(backend'.offscreen_render_target)
              /\ Unwrap(backend'.offscreen_render_target).width = rect.width
              /\ Unwrap(backend'.offscreen_render_target).height = rect.height]_vars

\* a window grown from 800x600 or 1000x600 to 1000x1000: a new 490x930 target in a 70,20 rect
C19_Witness ==
    /\ pc # "panicked"
    /\ backend.use_offscreen_render_target
    /\ backend_calls # <<>>
    /\ backend_calls[1] = [op |-> "prepare_frame", framebuffer_size_update |-> TRUE]
    /\ TargetCreations(backend_calls) =
           <<[op |-> "create_offscreen_render_target", width |-> 490, height |-> 930]>>
    /\ Unwrap(backend.render_target_rect).x = 70
    /\ Unwrap(backend.render_target_rect).y = 20
    /\ Unwrap(backend.offscreen_render_target).width = 490
    /\ Unwrap(backend.offscreen_render_target).height = 930

(***************************************************************************)
(* C20: resize_render_target called with the same width and height as the  *)
(* last recorded surface size leaves render_target_rect, the offscreen     *)
(* target and last_surface_width/height unchanged; across frames with no   *)
(* size change the offscreen target is never reallocated.                  *)
(***************************************************************************)
\* any call of the backend, returned or aborted
BackendCall ==
    \/ Suspend
    \/ Resume
    \/ \E framebuffer_size_update, first_ok, retry_ok \in BOOLEAN :
           PrepareFrame(framebuffer_size_update, first_ok, retry_ok)
    \/ Present

\* the call handed the last recorded size to resize_render_target
ResizedToSameSize ==
    \E i \in 1..Len(backend_calls') :
        /\ IsResizeCall(backend_calls'[i])
        /\ <<backend_calls'[i].width, backend_calls'[i].height>> = LastSurfaceSize(backend)

\* C20: same size, nothing changes; no call creates a target unless the recorded size changed
C20_SameSizeKeepsTarget ==
    [][BackendCall =>
          /\ ResizedToSameSize =>
                 /\ backend'.render_target_rect = backend.render_target_rect
                 /\ backend'.offscreen_render_target = backend.offscreen_render_target
                 /\ LastSurfaceSize(backend') = LastSurfaceSize(backend)
                 /\ TargetCreations(backend_calls') = <<>>
          /\ LastSurfaceSize(backend') = LastSurfaceSize(backend) =>
                 /\ TargetCreations(backend_calls') = <<>>
                 /\ backend'.offscreen_render_target = backend.offscreen_render_target]_vars

\* a frame prepared with framebuffer_size_update at an unchanged size: resize called, no target created
C20_Witness ==
    /\ pc # "panicked"
    /\ backend.use_offscreen_render_target
    /\ backend_calls # <<>>
    /\ backend_calls[1] = [op |-> "prepare_frame", framebuffer_size_update |-> TRUE]
    /\ \E i \in 1..Len(backend_calls) :
           /\ IsResizeCall(backend_calls[i])
           /\ <<backend_calls[i].width, backend_calls[i].height>> = LastSurfaceSize(backend)
    /\ TargetCreations(backend_calls) = <<>>
    /\ IsSome(backend.surface_view)

(***************************************************************************)
(* C21: mouse_pos_screen_to_render_target_space(x, y) returns (x - rect.x, *)
(* y - rect.y) when offscreen rendering is enabled and returns (x, y)      *)
(* unchanged when it is not.                                               *)
(***************************************************************************)
IsMousePosCall == backend_calls # <<>> /\ backend_calls[1].op = "mouse_pos_screen_to_render_target_space"

\* f - r in exact arithmetic, f = <<n, k>> the value n / 2^k
ExactDifference(f, r) == <<f[1] - r * 2 ^ f[2], f[2]>>

\* C21: the call returns, with the rect's origin subtracted exactly when offscreen mode is on
C21_MousePosMapped ==
    IsMousePosCall =>
        /\ pc # "panicked"
        /\ Len(backend_calls) = 2
        /\ backend_calls[2].value =
               IF backend.use_offscreen_render_target
               THEN <<ExactDifference(backend_calls[1].x, Unwrap(backend.render_target_rect).x),
                      ExactDifference(backend_calls[1].y, Unwrap(backend.render_target_rect).y)>>
               ELSE <<backend_calls[1].x, backend_calls[1].y>>

\* the cursor at (70.00390625, 640.5) on a 1000x1000 screen: (0.00390625, 620.5) in the 70,20 rect
C21_Witness ==
    /\ IsMousePosCall
    /\ backend.use_offscreen_render_target
    /\ Unwrap(backend.render_target_rect).x = 70
    /\ Unwrap(backend.render_target_rect).y = 20
    /\ backend_calls[1].x = <<17921, 8>>
    /\ backend_calls[1].y = <<1281, 1>>
    /\ backend_calls[2].value = <<<<1, 8>>, <<1241, 1>>>>

(***************************************************************************)
(* C22: in render, the draw stream is recorded against the offscreen       *)
(* target's view if and only if offscreen mode is enabled, and against the *)
(* swapchain surface view otherwise; the physical screen size passed to    *)
(* the painter is the render-target rect's width/height in exactly the     *)
(* same case and the surface configuration's width/height otherwise.       *)
(***************************************************************************)
IsRenderCall == backend_calls # <<>> /\ backend_calls[1].op = "render"
IsUploadCall(call) == call.op = "upload_egui_data"
IsRenderPass(call) == call.op = "begin_render_pass"

\* C22: the view and the screen size of the last render both follow use_offscreen_render_target
C22_ViewAndScreenSizeAgree ==
    /\ backend.use_offscreen_render_target <=> IsSome(backend.offscreen_render_target)
    /\ IsRenderCall =>
           \A i \in 1..Len(backend_calls) :
               /\ IsUploadCall(backend_calls[i]) =>
                      backend_calls[i].screen_size =
                          IF backend.use_offscreen_render_target
                          THEN <<Unwrap(backend.render_target_rect).width,
                                 Unwrap(backend.render_target_rect).height>>
                          ELSE <<backend.surface_config.width, backend.surface_config.height>>
               /\ IsRenderPass(backend_calls[i]) =>
                      backend_calls[i].view =
                          IF backend.use_offscreen_render_target
                          THEN "render target view" ELSE "surface view"
    /\ \A i \in 1..Len(backend.command_encoders) :
           backend.command_encoders[i].view =
               IF backend.use_offscreen_render_target
               THEN "render target view" ELSE "surface view"

\* a quad drawn into the 490x930 offscreen target of a 1000x1000 screen
C22_Witness ==
    /\ IsRenderCall
    /\ pc = "drawn"
    /\ backend.use_offscreen_render_target
    /\ Len(backend_calls) = 3
    /\ backend_calls[2] = [op |-> "upload_egui_data", screen_size |-> <<490, 930>>]
    /\ backend_calls[3] = [op |-> "begin_render_pass", view |-> "render target view"]
    /\ \E i \in 1..Len(rpass) : rpass[i].op = "draw_indexed"

(***************************************************************************)
(* C23: when acquiring the current surface image fails in prepare_frame,   *)
(* the surface is reconfigured to the live framebuffer size and            *)
(* acquisition is retried exactly once; success of the retry lets the      *)
(* frame proceed with surface_view and surface_current_texture set, and    *)
(* failure of the retry is fatal.                                          *)
(***************************************************************************)
IsAcquisition(call) == call.op = "get_current_texture"
\* the calls from the first acquisition on
FromAcquisition(log) ==
    LET first == CHOOSE i \in 1..Len(log) :
                     IsAcquisition(log[i]) /\ \A j \in 1..(i - 1) : ~IsAcquisition(log[j])
    IN  SubSeq(log, first, Len(log))
Acquires(log) == \E i \in 1..Len(log) : IsAcquisition(log[i])

\* C23: one failure: reconfigure to the live size, one retry, which decides the frame
C23_AcquisitionRetriedOnce ==
    [][\A framebuffer_size_update, first_ok, retry_ok \in BOOLEAN :
          (/\ PrepareFrame(framebuffer_size_update, first_ok, retry_ok)
           /\ Acquires(backend_calls')
           /\ window.exists)
          => IF first_ok
             THEN /\ FromAcquisition(backend_calls') = <<[op |-> "get_current_texture"]>>
                  /\ pc' # "panicked"
             ELSE /\ FromAcquisition(backend_calls') =
                         <<[op |-> "get_current_texture"],
                           [op |-> "configure", width |-> window.size[1],
                            height |-> window.size[2]],
                           [op |-> "get_current_texture"]>>
                  /\ SurfaceSize(backend') = window.size
                  /\ IF retry_ok
                     THEN /\ pc' # "panicked"
                          /\ IsSome(backend'.surface_view)
                          /\ IsSome(backend'.surface_current_texture)
                     ELSE /\ pc' = "panicked"
                          /\ panic' = "failed to get surface even after reconfiguration"]_vars

\* the window grew to 1000x1000 unnoticed: acquisition failed, the surface was reconfigured, the retry succeeded
C23_Witness ==
    /\ pc # "panicked"
    /\ backend_calls =
           <<[op |-> "prepare_frame", framebuffer_size_update |-> FALSE],
             [op |-> "get_current_texture"],
             [op |-> "configure", width |-> 1000, height |-> 1000],
             [op |-> "get_current_texture"]>>
    /\ LastSurfaceSize(backend) # <<1000, 1000>>
    /\ IsSome(backend.surface_view)
    /\ IsSome(backend.surface_current_texture)

(***************************************************************************)
(* C24: after every prepare_frame call that returns, surface_view is       *)
(* available (Some) and stays available until present takes it, so user    *)
(* code running between prepare_frame and present can always use it.       *)
(***************************************************************************)
PrepareFrameReturned ==
    /\ \E framebuffer_size_update, first_ok, retry_ok \in BOOLEAN :
           PrepareFrame(framebuffer_size_update, first_ok, retry_ok)
    /\ pc' # "panicked"

\* C24: prepare_frame returns with a surface view, and only present takes it away
C24_SurfaceViewAvailableUntilPresent ==
    [][/\ PrepareFrameReturned => IsSome(backend'.surface_view)
       /\ (IsSome(backend.surface_view) /\ IsNone(backend'.surface_view)) => Present]_vars

(***************************************************************************)
(* C25: present submits every command encoder accumulated since the        *)
(* previous present in one submission that happens before the surface      *)
(* image is presented; after present returns, command_encoders is empty    *)
(* and surface_view and surface_current_texture are both None.             *)
(***************************************************************************)
RenderStep == \E data \in RenderFrames(render_screen_size(backend)) : Render(data)

\* C25: encoders pile up one per render, and present submits them all at once, then presents
C25_PresentSubmitsAllEncoders ==
    [][/\ (Present /\ pc' # "panicked") =>
              /\ backend_calls' =
                     <<[op |-> "present"],
                       [op |-> "submit", encoders |-> backend.command_encoders],
                       [op |-> "surface_texture.present"]>>
              /\ backend'.command_encoders = <<>>
              /\ IsNone(backend'.surface_view)
              /\ IsNone(backend'.surface_current_texture)
       /\ (RenderStep /\ pc' # "panicked") =>
              /\ Len(backend'.command_encoders) = Len(backend.command_encoders) + 1
              /\ SubSeq(backend'.command_encoders, 1, Len(backend.command_encoders)) =
                     backend.command_encoders
       /\ (~Present /\ ~RenderStep) => backend'.command_encoders = backend.command_encoders]_vars

\* two frames rendered to the surface, then one present that submitted both encoders
C25_Witness ==
    /\ pc # "panicked"
    /\ backend_calls =
           <<[op |-> "present"],
             [op |-> "submit",
              encoders |-> <<[label |-> "egui command encoder", view |-> "surface view"],
                             [label |-> "egui command encoder", view |-> "surface view"]>>],
             [op |-> "surface_texture.present"]>>
    /\ backend.command_encoders = <<>>
    /\ IsNone(backend.surface_view)
    /\ IsNone(backend.surface_current_texture)

(***************************************************************************)
(* C26: the offscreen target is replaced only by a thread that holds its   *)
(* mutex, and what another thread reads through the mutex is a complete    *)
(* target that a finished assignment left there, never a half-assigned     *)
(* one, and never None while rendering goes to the offscreen target.       *)
(***************************************************************************)
Complete(target) ==
    IsSome(target) =>
        /\ Unwrap(target).texture = <<Unwrap(target).width, Unwrap(target).height>>
        /\ Unwrap(target).view = Unwrap(target).texture
TargetReplaced == backend'.offscreen_render_target # backend.offscreen_render_target
ReaderObserved == shared'.observed # shared.observed \/ (shared.mutex = "reader" /\ ReaderRead)
C26_TargetReplacedUnderLock ==
    [][/\ TargetReplaced => shared.mutex = "backend" /\ shared'.mutex \in {"backend", "unlocked"}
       /\ ReaderObserved =>
              /\ IsNone(shared.resizing)
              /\ shared'.observed = Some(backend.offscreen_render_target)
              /\ Complete(Unwrap(shared'.observed))
              /\ backend.use_offscreen_render_target => IsSome(Unwrap(shared'.observed))]_vars
\* a target is half assigned under the lock while the reader holds what it read before
C26_Witness ==
    /\ shared.mutex = "backend"
    /\ ~Complete(backend.offscreen_render_target)
    /\ IsSome(shared.observed)
    /\ IsSome(Unwrap(shared.observed))
    /\ Complete(Unwrap(shared.observed))

(***************************************************************************)
(* C27: after an upload that returned, a Managed texture whose last full   *)
(* creation was in this frame is bound to the nearest sampler when its id  *)
(* is 0, whatever filter the delta asked for, and otherwise to the nearest *)
(* sampler for Nearest magnification and the linear one for Linear.        *)
(***************************************************************************)
LastFullCreation(set, i) ==
    /\ IsFullCreation(set, i)
    /\ \A j \in (i + 1)..Len(set) : IsFullCreation(set, j) => set[j][1] # set[i][1]
C27_SamplerOfFullCreation ==
    [][\A data \in ImgFrames :
          Upload(data, <<800, 600>>) /\ UploadReturned =>
              \A i \in 1..Len(data.textures_delta.set) :
                  LastFullCreation(data.textures_delta.set, i) =>
                      LET key == data.textures_delta.set[i][1].key
                          filter == data.textures_delta.set[i][2].magnification
                      IN  /\ key \in DOMAIN managed_textures'
                          /\ key = 0 => managed_textures'[key].bindgroup.sampler = "nearest"
                          /\ key # 0 /\ filter = "Nearest" =>
                                 managed_textures'[key].bindgroup.sampler = "nearest"
                          /\ key # 0 /\ filter = "Linear" =>
                                 managed_textures'[key].bindgroup.sampler = "linear"]_vars
\* texture 0 and texture 1 both created from the Linear delta: 0 nearest, 1 linear
C27_Witness ==
    /\ DOMAIN managed_textures = {0, 1}
    /\ managed_textures[0].texture = TexImage
    /\ managed_textures[0].bindgroup.sampler = "nearest"
    /\ managed_textures[1].texture = TexImage
    /\ managed_textures[1].bindgroup.sampler = "linear"

(***************************************************************************)
(* C28: the painter never clears or replaces custom_data.  No step removes *)
(* an entry, frames without geometry included; every prepare hook an       *)
(* upload ran has its entry in the map when the upload returns; and every  *)
(* paint hook is handed the map as it stands, so it reads what the prepare *)
(* hooks of this frame and of every earlier frame wrote.                   *)
(***************************************************************************)
PreparedCallbacks(log) == {log[i].callback : i \in {j \in 1..Len(log) : IsPrepareCall(log[j])}}
C28_CustomDataKept ==
    [][/\ custom_data \subseteq custom_data'
       /\ UploadReturned => PreparedCallbacks(events') \subseteq custom_data'
       /\ \A i \in 1..Len(rpass') :
              IsPaintCall(rpass'[i]) => rpass'[i].custom_data = custom_data']_vars
\* cb2 painted in a frame that carries no cb: it reads the entry cb's hook wrote earlier
C28_Witness ==
    /\ pc = "drawn"
    /\ \A i \in 1..Len(frame.meshes) : frame.meshes[i].primitive # CallbackPrimitive("cb")
    /\ \E i \in 1..Len(rpass) :
           /\ IsPaintCall(rpass[i])
           /\ rpass[i].callback = "cb2"
           /\ rpass[i].custom_data = {"cb", "cb2"}

(***************************************************************************)
(* C29 as stated: in offscreen mode, when prepare_frame returns, also      *)
(* after an acquisition that failed once and was retried on the surface    *)
(* reconfigured to the live size, the render target rect records the       *)
(* surface configuration's width and height as its screen size and is the  *)
(* rect createRenderTargetRectFromScreenSize gives for that size.          *)
(***************************************************************************)
RectMatchesSurface(self) ==
    /\ IsSome(self.render_target_rect)
    /\ Unwrap(self.render_target_rect).screen_width = self.surface_config.width
    /\ Unwrap(self.render_target_rect).screen_height = self.surface_config.height
    /\ Unwrap(self.render_target_rect) =
           createRenderTargetRectFromScreenSize(self.surface_config.width,
                                                self.surface_config.height)
C29_RectMatchesSurfaceConfig ==
    [][PrepareFrameReturned /\ backend'.use_offscreen_render_target =>
           RectMatchesSurface(backend')]_vars

(***************************************************************************)
(* C30: when every Mesh primitive of the frame names a User id that a      *)
(* registration has returned, or a Managed id whose latest full creation   *)
(* has had no free in any frame from that creation up to the frame before  *)
(* this one, the frame's draw runs to its end without a cannot-find-       *)
(* texture abort and binds a texture for every draw unit; a texture named  *)
(* in this frame's own free list is among those drawn.                     *)
(***************************************************************************)
DrawStep == pc = "uploaded" /\ pc' \in {"drawn", "panicked"}
\* the Managed keys created and not freed since, up to the frame before: the history of deltas
CreatedNotFreedSince == ref_cache
TexturePresent(texture_id) ==
    IF texture_id.kind = "User" THEN texture_id.key < next_user_texture_id
    ELSE texture_id.key \in CreatedNotFreedSince
AllTexturesPresent ==
    \A i \in 1..Len(frame.meshes) :
        frame.meshes[i].primitive.kind = "Mesh" =>
            TexturePresent(frame.meshes[i].primitive.texture_id)
BindGroupsSet(commands) == {i \in 1..Len(commands) : commands[i].op = "set_bind_group"}
C30_PresentTexturesAreDrawable ==
    [][DrawStep /\ AllTexturesPresent =>
           /\ pc' = "drawn"
           /\ panic' \notin {"cannot find managed texture", "cannot find user texture"}
           /\ Cardinality({i \in BindGroupsSet(rpass') : rpass'[i].index = 1}) = Len(draw_calls)]_vars
\* Managed(1) is drawn in the frame that frees it, next to a registered user texture
C30_Witness ==
    /\ pc = "drawn"
    /\ ManagedId(1) \in Range(frame.free)
    /\ frame.meshes = <<Quad(ManagedId(1)), Quad(UserId(0))>>
    /\ Len(draw_calls) = 2
    /\ \E i \in 1..Len(rpass) : rpass[i].op = "draw_indexed"

(***************************************************************************)
(* C31: after every backend call surface_view is Some exactly when         *)
(* surface_current_texture is Some.  A returning present or suspend leaves *)
(* both None, and a prepare_frame that starts with both None never fails   *)
(* its two assertions, so a run of prepare_frame, render, present in that  *)
(* order never fails them; a prepare_frame that starts while the image of  *)
(* an earlier prepare_frame is still held, with the window alive, fails    *)
(* them.                                                                   *)
(***************************************************************************)
PrepareFrameStep ==
    \E framebuffer_size_update, first_ok, retry_ok \in BOOLEAN :
        PrepareFrame(framebuffer_size_update, first_ok, retry_ok)
AssertionFailures ==
    {"assertion failed: self.surface_current_texture.is_none()",
     "assertion failed: self.surface_view.is_none()"}
ImageHeld(self) == IsSome(self.surface_view) \/ IsSome(self.surface_current_texture)
C31_ViewAndTextureTogether ==
    [][/\ IsSome(backend'.surface_view) <=> IsSome(backend'.surface_current_texture)
       /\ (Present \/ Suspend) /\ pc' # "panicked" => ~ImageHeld(backend')
       /\ PrepareFrameStep /\ ~ImageHeld(backend) => panic' \notin AssertionFailures
       /\ PrepareFrameStep /\ ImageHeld(backend) /\ window.exists =>
              pc' = "panicked" /\ panic' \in AssertionFailures]_vars
\* a second prepare_frame right after a frame was rendered but not presented
C31_Witness ==
    /\ pc = "panicked"
    /\ panic = "assertion failed: self.surface_current_texture.is_none()"
    /\ IsSome(backend.surface_view)
    /\ Len(backend.command_encoders) = 1

(***************************************************************************)
(* C32 as stated: after every resume that returns, the painter's render    *)
(* pipeline is compiled for surface_config.format, whatever formats the    *)
(* earlier suspend/resume cycles chose.                                    *)
(***************************************************************************)
C32_PipelineTargetsSurfaceFormat ==
    [][Resume /\ pc' # "panicked" =>
           backend'.painter.pipeline.format = backend'.surface_config.format]_vars

(***************************************************************************)
(* C33: the texture step runs in every upload_egui_data that returns, the  *)
(* frames without vertices included: the frame's free list is queued, the  *)
(* textures the previous frame queued are removed unless the frame creates *)
(* them again, and the frame's full creations are in the cache.            *)
(***************************************************************************)
C33_TextureStepInEveryFrame ==
    [][UploadReturned =>
           /\ delete_textures' = frame'.free
           /\ \A key \in FreedKeys(delete_textures) \ frame'.creates :
                  key \notin DOMAIN managed_textures'
           /\ frame'.creates \subseteq DOMAIN managed_textures']_vars
\* a frame without geometry queues the free of texture 1 and removes texture 0, queued before
C33_Witness ==
    /\ pc = "uploaded"
    /\ TotalVertices(frame.meshes) = 0
    /\ delete_textures = <<ManagedId(1)>>
    /\ removed = {0}
    /\ DOMAIN managed_textures = {1}

(***************************************************************************)
(* C34 as stated: an upload_egui_data of a frame whose meshes have at      *)
(* least one vertex returns, whatever the frame's index total and whatever *)
(* capacities the earlier frames left.                                     *)
(***************************************************************************)
C34_GeometryStepNeverFatal ==
    [][UploadStep /\ TotalVertices(frame'.meshes) > 0 => pc' = "uploaded"]_vars

(***************************************************************************)
(* C35: after an upload, every Mesh unit of the draw list addresses        *)
(* geometry inside the buffers: base_vertex plus the vertex count of its   *)
(* mesh is at most vb_len and index_end is at most ib_len.  The byte       *)
(* ranges copied for the emitted meshes start at 0, each begins where the  *)
(* one before ended, and all end inside the buffer.                        *)
(***************************************************************************)
Contiguous(copies, size) ==
    \A j \in 1..Len(copies) :
        /\ copies[j].from = (IF j = 1 THEN 0 ELSE copies[j - 1].to)
        /\ copies[j].from <= copies[j].to
        /\ copies[j].to <= size
C35_MeshUnitsInsideBuffers ==
    Uploaded =>
      /\ \A i \in 1..Len(draw_calls) :
            IsMeshUnit(draw_calls[i]) =>
               /\ i <= Len(Passing)
               /\ draw_calls[i].base_vertex + Passing[i].primitive.vertices <= vb_len
               /\ draw_calls[i].index_start <= draw_calls[i].index_end
               /\ draw_calls[i].index_end <= ib_len
      /\ Contiguous(SelectSeq(events, IsVertexCopy), vb_len * VertexSize)
      /\ Contiguous(SelectSeq(events, IsIndexCopy), ib_len * IndexSize)
\* two meshes after a larger frame: the second starts where the first ends, below the capacity
C35_Witness ==
    /\ pc = "uploaded"
    /\ Len(draw_calls) = 2
    /\ IsMeshUnit(draw_calls[1])
    /\ IsMeshUnit(draw_calls[2])
    /\ draw_calls[2].base_vertex = 3
    /\ draw_calls[2].index_end = 6
    /\ vb_len = 8
    /\ ib_len = 12

(***************************************************************************)
(* C36: the user-texture table holds exactly the keys 0 up to              *)
(* next_user_texture_id - 1, in every state, and no upload changes it,     *)
(* whatever its texture deltas name and whether it returns or aborts.      *)
(***************************************************************************)
UserKeysAreDense(table, next) == DOMAIN table = 0..(next - 1)
C36_UserTexturesNeverRemoved ==
    /\ UserKeysAreDense(user_textures, next_user_texture_id)
    /\ [][/\ UserKeysAreDense(user_textures', next_user_texture_id')
          /\ UploadStep => user_textures' = user_textures]_vars
\* an upload whose texture delta named User(0) aborted: both registered user textures remain
C36_Witness ==
    /\ pc = "panicked"
    /\ panic = "not yet implemented"
    /\ delete_textures = <<>>
    /\ DOMAIN user_textures = {0, 1}

(***************************************************************************)
(* C37: a texture delta that names a User id ends in the not-implemented   *)
(* abort.  An upload whose set names a User id aborts; an upload that      *)
(* finds a User id in the free list queued by the frame before aborts; an  *)
(* upload with neither returns and queues its own free list, User ids      *)
(* included, for the next frame.                                           *)
(***************************************************************************)
NamesUser(ids) == \E i \in 1..Len(ids) : ids[i].kind = "User"
SetIds(set) == [i \in 1..Len(set) |-> set[i][1]]
NotImplemented == pc' = "panicked" /\ panic' = "not yet implemented"
C37_UserIdInDeltaAborts ==
    [][\A data \in UserDeltaFrames :
          Upload(data, <<800, 600>>) =>
              /\ NamesUser(SetIds(data.textures_delta.set)) => NotImplemented
              /\ NamesUser(delete_textures) => NotImplemented
              /\ ~NamesUser(SetIds(data.textures_delta.set)) /\ ~NamesUser(delete_textures) =>
                     /\ pc' = "uploaded"
                     /\ delete_textures' = data.textures_delta.free]_vars
\* a frame whose free list names User(0) was accepted; the next upload will abort
C37_Witness ==
    /\ pc = "uploaded"
    /\ delete_textures = <<UserId(0)>>
    /\ frame.free = <<UserId(0)>>

(***************************************************************************)
(* C38: suspend, in whatever state it is called, leaves surface,           *)
(* surface_view and surface_current_texture None; resume does not touch    *)
(* the view and the texture, so the prepare_frame after it starts with     *)
(* both None and passes its assertions; and a prepare_frame without a size *)
(* update on a suspended backend returns without acquiring an image, both  *)
(* fields still None.                                                      *)
(***************************************************************************)
PrepareFrameWithoutSize == \E first_ok, retry_ok \in BOOLEAN : PrepareFrame(FALSE, first_ok, retry_ok)
C38_SuspendClearsSurfaceState ==
    [][/\ Suspend => /\ IsNone(backend'.surface)
                     /\ IsNone(backend'.surface_view)
                     /\ IsNone(backend'.surface_current_texture)
       /\ Resume => /\ backend'.surface_view = backend.surface_view
                    /\ backend'.surface_current_texture = backend.surface_current_texture
       /\ PrepareFrameStep /\ ~ImageHeld(backend) => panic' \notin AssertionFailures
       /\ PrepareFrameWithoutSize /\ IsNone(backend.surface) =>
              /\ pc' # "panicked"
              /\ ~\E i \in 1..Len(backend_calls') : IsAcquisition(backend_calls'[i])
              /\ ~ImageHeld(backend')]_vars
\* suspended between render and present: the frame's encoder is kept, its image is gone
C38_Witness ==
    /\ backend_calls = <<[op |-> "suspend"]>>
    /\ ~backend.use_offscreen_render_target
    /\ Len(backend.command_encoders) = 1
    /\ IsNone(backend.surface)
    /\ IsNone(backend.surface_view)
    /\ IsNone(backend.surface_current_texture)

(***************************************************************************)
(* C39: the rectangle createRenderTargetRectFromScreenSize returns lies    *)
(* inside the screen it was computed for: x + width <= screen_width and    *)
(* y + height <= screen_height.                                            *)
(***************************************************************************)
InsideScreen(rect) ==
    /\ rect.x + rect.width <= rect.screen_width
    /\ rect.y + rect.height <= rect.screen_height
C39_RectInsideScreen ==
    [][\A i \in 1..Len(backend_calls') :
           IsRectCall(backend_calls'[i]) =>
               /\ backend_calls'[i].rect.screen_width = backend_calls'[i].screen_width
               /\ backend_calls'[i].rect.screen_height = backend_calls'[i].screen_height
               /\ InsideScreen(backend_calls'[i].rect)]_vars
\* a 101 x 140943 screen, sides that are not multiples of 100
C39_Witness ==
    /\ Len(backend_calls) = 1
    /\ IsRectCall(backend_calls[1])
    /\ backend_calls[1].screen_width = 101
    /\ backend_calls[1].screen_height = 140943
    /\ backend_calls[1].rect.width > 0
    /\ backend_calls[1].rect.y + backend_calls[1].rect.height < 140943

(***************************************************************************)
(* C40: in the GLFW event loop the resize flag is true on the first frame, *)
(* is set by every FramebufferSize event that tick handles and by nothing  *)
(* else, and is cleared right after each prepare_frame; so prepare_frame   *)
(* receives framebuffer_size_update = true on the first frame and on the   *)
(* frame whose tick handled a resize event, and false on every other       *)
(* frame.                                                                  *)
(***************************************************************************)
FirstFrame == glfw.frames = 0
\* C40: prepare_frame is told of a resize exactly on the first frame and on frames that flushed a FramebufferSize event
C40_ResizeFlagPerFrame ==
    /\ [](FirstFrame /\ glfw.at \in {"tick", "prepare_frame"} => glfw.resized_event_pending)
    /\ [][/\ LoopTick => (glfw'.resized_event_pending <=>
                             glfw.resized_event_pending \/ Resized(glfw.events_receiver))
          /\ LoopPrepareFrameStep =>
                 /\ backend_calls'[1].op = "prepare_frame"
                 /\ backend_calls'[1].framebuffer_size_update <=>
                        FirstFrame \/ Resized(glfw.frame_events)
                 /\ pc' # "panicked" => ~glfw'.resized_event_pending
          /\ glfw'.resized_event_pending # glfw.resized_event_pending =>
                 LoopTick \/ LoopPrepareFrameStep]_vars
\* a later frame whose tick flushed a cursor event and then a resize: prepare_frame was told of it
C40_Witness ==
    /\ glfw.frames = 2
    /\ glfw.at = "render"
    /\ Len(glfw.frame_events) = 2
    /\ ~IsResize(glfw.frame_events[1])
    /\ IsResize(glfw.frame_events[2])
    /\ backend_calls[1].op = "prepare_frame"
    /\ backend_calls[1].framebuffer_size_update
    /\ ~glfw.resized_event_pending

====
